---- MODULE Spec2Model ----
(***************************************************************************)
(* OP2 -> MSC Nastran native HDF5 conversion.                              *)
(*                                                                         *)
(* Two writers exist in the repository: the one embedded in the desktop    *)
(* front end (op2_to_h5_gui.py, writer = "gui") and the stand-alone module *)
(* used by the command-line entry point (msc_h5_writer.py, writer = "cli").*)
(* Both are modelled; `writer` selects whose code an action follows.       *)
(***************************************************************************)
EXTENDS Integers, Sequences, FiniteSets, TLC

VARIABLES
    writer,     \* "gui" | "cli": which module's write_msc_h5 / _Domains runs
    op2,        \* the source model handed to write_msc_h5 (read-only)
    pc,         \* position of write_msc_h5 in its fixed sequence of phases
    _map,       \* _Domains._map: (subcase, itime) -> domain ID
    _records,   \* _Domains._records: list of domain records
    h5,         \* the output container: path -> dataset
    attrs,      \* root attributes of the container
    created,    \* dataset paths in the order create_dataset was called
    last,       \* the most recent direct get_id call and what it returned
    batch       \* the driver's loop over a list of files: counters and outcomes

vars == <<writer, op2, pc, _map, _records, h5, attrs, created, last, batch>>

(***************************************************************************)
(* Bounds of the model.                                                    *)
(***************************************************************************)
MaxSubcase == 2     \* load cases are 1..MaxSubcase
MaxSteps == 2       \* a result has 0..MaxSteps time steps
MaxEnt == 2         \* a result has 0..MaxEnt entities (nodes / elements)
MaxDomains == 2     \* cap on direct get_id creations in the registry runs
E2ESteps == 3       \* steps per load case in the nodal end-to-end runs
E2EEnt == 5         \* nodes per load case in the nodal end-to-end runs

Subcases == 1..MaxSubcase
StepIdx == 0..(MaxSteps - 1)

(***************************************************************************)
(* Optional values: Python's None / a missing attribute is the empty set,  *)
(* a present value v is {v}.                                               *)
(***************************************************************************)
None == {}
Some(v) == {v}
The(o) == CHOOSE v \in o : TRUE

\* Python truthiness of an optional integer: None and 0 are falsy.
Truthy(o) == o # None /\ The(o) # 0

\* Python `a or b` on optional integers.
Or(a, b) == IF Truthy(a) THEN a ELSE b

(***************************************************************************)
(* Source result objects (the per-load-case objects of the result model).  *)
(*   nrows      length of the entity array (node_gridtype, element_node,   *)
(*              node_element or element)                                   *)
(*   ntimes     data.shape[0]                                              *)
(*   has_element, has_element_node                                         *)
(*              whether the element / element_node array is there          *)
(*   the rest   optional attributes probed with hasattr / getattr          *)
(***************************************************************************)
Result(nrows, ntimes) ==
    [nrows |-> nrows, ntimes |-> ntimes,
     has_element |-> FALSE, has_element_node |-> TRUE,
     nnodes_per_element |-> None, nnodes |-> None,
     analysis_code |-> None, sol |-> None, solution |-> None,
     modes |-> None, eigrs |-> None, _times |-> None, eigis |-> None]

(***************************************************************************)
(* _Domains                                                                *)
(***************************************************************************)
_SOL_ANALYSIS ==
    (101 :> 1) @@ (103 :> 2) @@ (105 :> 7) @@ (106 :> 10) @@ (107 :> 9) @@
    (108 :> 5) @@ (109 :> 6) @@ (110 :> 9) @@ (111 :> 5) @@ (112 :> 6) @@
    (144 :> 1) @@ (200 :> 1)

EmptyMap == [k \in {} |-> 0]

\* _Domains.__init__
NewDomains == [_map |-> EmptyMap, _records |-> <<>>]

\* ANALYSIS of a new domain, desktop writer.
AnalysisGui(result) ==
    IF Truthy(result.analysis_code)
    THEN The(result.analysis_code)
    ELSE LET sol == Or(result.sol, result.solution)
         IN IF Truthy(sol) /\ The(sol) \in DOMAIN _SOL_ANALYSIS
            THEN _SOL_ANALYSIS[The(sol)]
            ELSE 1

\* ANALYSIS of a new domain, stand-alone writer: np.zeros default unless the
\* attribute exists.
AnalysisCli(result) ==
    IF result.analysis_code # None THEN The(result.analysis_code) ELSE 0

\* arr[itime] when the optional array is present and long enough, else dflt.
AtStep(arr, itime, dflt) ==
    IF arr # None /\ itime < Len(The(arr)) THEN The(arr)[itime + 1] ELSE dflt

\* TIME_FREQ_EIGR with the generic time array preferred.
TimeFreqEigrTimesFirst(result, itime) ==
    IF result._times # None /\ itime < Len(The(result._times))
    THEN The(result._times)[itime + 1]
    ELSE AtStep(result.eigrs, itime, 0)

\* TIME_FREQ_EIGR: eigrs preferred over _times.
TimeFreqEigr(result, itime) ==
    IF result.eigrs # None /\ itime < Len(The(result.eigrs))
    THEN The(result.eigrs)[itime + 1]
    ELSE AtStep(result._times, itime, 0)

\* The record get_id builds for a new key.
DomainRecord(w, did, subcase, itime, result) ==
    [ID |-> did,
     SUBCASE |-> subcase,
     ANALYSIS |-> IF w = "gui" THEN AnalysisGui(result) ELSE AnalysisCli(result),
     MODE |-> AtStep(result.modes, itime, 0),
     TIME_FREQ_EIGR |-> TimeFreqEigr(result, itime),
     EIGI |-> IF w = "gui" THEN AtStep(result.eigis, itime, 0) ELSE 0]

\* NextId with IDs counted from 0.
NextIdZeroBased(dom) == Len(dom._records)

\* The ID get_id assigns to a new key.
NextId(dom) == Len(dom._records) + 1

\* get_id without the lookup of an already registered key.
get_id_no_lookup(w, dom, subcase, itime, result) ==
    LET key == <<subcase, itime>>
        did == NextId(dom)
    IN [did |-> did,
        dom |-> [_map |-> (key :> did) @@ dom._map,
                 _records |-> Append(dom._records,
                                 DomainRecord(w, did, subcase, itime, result))]]

\* _Domains.get_id: returns the ID and the registry after the call.
get_id(w, dom, subcase, itime, result) ==
    LET key == <<subcase, itime>> IN
    IF key \in DOMAIN dom._map
    THEN [did |-> dom._map[key], dom |-> dom]
    ELSE LET did == NextId(dom) IN
         [did |-> did,
          dom |-> [_map |-> (key :> did) @@ dom._map,
                   _records |-> Append(dom._records,
                                   DomainRecord(w, did, subcase, itime, result))]]

\* _Domains.to_array
to_array(dom) == dom._records

(***************************************************************************)
(* The output container.  F = [h5, created, err]: the datasets, the order  *)
(* in which they were created and whether an exception has been raised     *)
(* (after which nothing more is written).                                  *)
(***************************************************************************)
EmptyFile == [h5 |-> EmptyMap, created |-> <<>>, err |-> FALSE]

IndexPath(path) == "/INDEX" \o path

\* h5.create_dataset(path, data=data): raises when the name already exists.
create_dataset(F, path, data) ==
    IF F.err THEN F
    ELSE IF path \in DOMAIN F.h5 THEN [F EXCEPT !.err = TRUE]
    ELSE [F EXCEPT !.h5 = (path :> [data |-> data, version |-> None]) @@ F.h5,
                   !.created = Append(F.created, path)]

\* ds.attrs['version'] = version
SetVersion(F, path, version) ==
    IF F.err THEN F ELSE [F EXCEPT !.h5[path].version = Some(version)]

\* _ds: dataset plus version attribute.
_ds(F, path, data, version) ==
    SetVersion(create_dataset(F, path, data), path, version)

\* An index entry that covers the first record only.
FirstRecordIndex(n) == <<[DOMAIN_ID |-> 1, POSITION |-> 0, LENGTH |-> 1]>>

\* The single index entry _ds_with_index writes for an INPUT-style table.
WholeTableIndex(n) == <<[DOMAIN_ID |-> 1, POSITION |-> 0, LENGTH |-> n]>>

\* _ds_with_index: dataset, version attribute and the INDEX mirror.
_ds_with_index(F, path, data, version) ==
    LET G == _ds(F, path, data, version) IN
    IF G.err \/ IndexPath(path) \in DOMAIN G.h5 THEN G
    ELSE SetVersion(create_dataset(G, IndexPath(path), WholeTableIndex(Len(data))),
                    IndexPath(path), 0)

RECURSIVE Concat(_)
\* np.concatenate(data_list)
Concat(data_list) ==
    IF data_list = <<>> THEN <<>>
    ELSE Head(data_list) \o Concat(Tail(data_list))

\* _save of the desktop writer.
SaveGui(F, path, data_list, index_list, version) ==
    IF data_list = <<>> THEN F
    ELSE _ds(_ds(F, path, Concat(data_list), version),
             IndexPath(path), index_list, 0)

\* _save of the stand-alone writer without the INDEX mirror.
SaveCliNoIndex(F, path, data_list, index_list) ==
    IF data_list = <<>> THEN F
    ELSE create_dataset(F, path, Concat(data_list))

\* _save of the stand-alone writer: no version attributes.
SaveCli(F, path, data_list, index_list) ==
    IF data_list = <<>> THEN F
    ELSE create_dataset(create_dataset(F, path, Concat(data_list)),
                        IndexPath(path), index_list)

\* _save without the `if not data_list: return` guard.
_save_unguarded(w, F, path, data_list, index_list, version) ==
    IF w = "gui"
    THEN _ds(_ds(F, path, Concat(data_list), version), IndexPath(path), index_list, 0)
    ELSE create_dataset(create_dataset(F, path, Concat(data_list)),
                        IndexPath(path), index_list)

_save(w, F, path, data_list, index_list, version) ==
    IF w = "gui" THEN SaveGui(F, path, data_list, index_list, version)
    ELSE SaveCli(F, path, data_list, index_list)

(***************************************************************************)
(* Record builders.  A builder walks the load cases in ascending order and *)
(* the steps of each in ascending order; per step it asks the registry for *)
(* the domain ID, emits n records carrying it and one index entry.         *)
(* S = [F, dom] is what a builder reads and returns: the container and the *)
(* registry.                                                               *)
(***************************************************************************)
RECURSIVE LexSeq(_)
\* The pairs of S in ascending (load case, step) order.
LexSeq(S) ==
    IF S = {} THEN <<>>
    ELSE LET m == CHOOSE x \in S : \A y \in S :
                      x[1] < y[1] \/ (x[1] = y[1] /\ x[2] <= y[2])
         IN <<m>> \o LexSeq(S \ {m})

\* Only the first step of every load case.
StepsOfFirstStep(result_dict, used) ==
    LexSeq({<<sc, 0>> : sc \in {u \in used : result_dict[u].ntimes > 0}})

\* for sc in sorted(result_dict): ... for it in range(ntimes), over the load
\* cases in `used` (those the builder does not skip).
StepsOf(result_dict, used) ==
    LexSeq(UNION {{<<sc, it>> : it \in 0..(result_dict[sc].ntimes - 1)} : sc \in used})

\* The records one step contributes: n rows, each with the step's domain ID.
MkRows(n, did) == [i \in 1..n |-> [ID |-> i, DOMAIN_ID |-> did]]

\* idx_list.append((did, pos, n))
IndexEntry(did, pos, n) == [DOMAIN_ID |-> did, POSITION |-> pos, LENGTH |-> n]

\* A position that is never advanced.
AdvanceStuck(pos, n) == pos

\* pos += n
Advance(pos, n) == pos + n

EmptyAcc(dom) == [dom |-> dom, pos |-> 0, rows_list |-> <<>>, idx_list |-> <<>>]

RECURSIVE Fill(_, _, _, _, _, _)
\* The double loop of a builder from step k on; n[sc] is the number of
\* records a step of load case sc emits.
Fill(w, result_dict, n, steps, k, acc) ==
    IF k > Len(steps) THEN acc
    ELSE LET sc == steps[k][1]
             it == steps[k][2]
             g == get_id(w, acc.dom, sc, it, result_dict[sc])
         IN Fill(w, result_dict, n, steps, k + 1,
                 [dom |-> g.dom,
                  pos |-> Advance(acc.pos, n[sc]),
                  rows_list |-> Append(acc.rows_list, MkRows(n[sc], g.did)),
                  idx_list |-> Append(acc.idx_list,
                                      IndexEntry(g.did, acc.pos, n[sc]))])

\* A whole builder: loops, then _save at `path`.
Build(w, S, path, result_dict, used, n, version) ==
    LET b == Fill(w, result_dict, n, StepsOf(result_dict, used), 1, EmptyAcc(S.dom))
    IN [F |-> _save(w, S.F, path, b.rows_list, b.idx_list, version),
        dom |-> b.dom]

\* nnodes_per_element, else nnodes, else 1
NNodes(res) ==
    IF res.nnodes_per_element # None THEN The(res.nnodes_per_element)
    ELSE IF res.nnodes # None THEN The(res.nnodes) ELSE 1

_write_nodal(w, S, name, result_dict) ==
    Build(w, S, "/NASTRAN/RESULT/NODAL/" \o name, result_dict,
          DOMAIN result_dict,
          [sc \in DOMAIN result_dict |-> result_dict[sc].nrows], 1)

_write_grid_force(w, S, result_dict) ==
    Build(w, S, "/NASTRAN/RESULT/NODAL/GRID_FORCE", result_dict,
          DOMAIN result_dict,
          [sc \in DOMAIN result_dict |-> result_dict[sc].nrows], 1)

_write_plate_stress(w, S, msc_name, result_dict, category) ==
    Build(w, S, "/NASTRAN/RESULT/ELEMENTAL/" \o category \o "/" \o msc_name,
          result_dict, DOMAIN result_dict,
          [sc \in DOMAIN result_dict |->
              result_dict[sc].nrows \div (2 * NNodes(result_dict[sc]))], 0)

\* A corner builder that saves under the table of the center builder.
_write_quad_cn_at_quad4(w, S, result_dict, category) ==
    Build(w, S, "/NASTRAN/RESULT/ELEMENTAL/" \o category \o "/QUAD4",
          result_dict,
          {sc \in DOMAIN result_dict : NNodes(result_dict[sc]) > 1},
          [sc \in DOMAIN result_dict |->
              LET nnodes == NNodes(result_dict[sc])
                  n_elem == result_dict[sc].nrows \div (2 * nnodes)
              IN n_elem * nnodes * 2], 0)

_write_quad_cn_stress(w, S, result_dict, category) ==
    Build(w, S, "/NASTRAN/RESULT/ELEMENTAL/" \o category \o "/QUAD_CN",
          result_dict,
          {sc \in DOMAIN result_dict : NNodes(result_dict[sc]) > 1},
          [sc \in DOMAIN result_dict |->
              LET nnodes == NNodes(result_dict[sc])
                  n_elem == result_dict[sc].nrows \div (2 * nnodes)
              IN n_elem * nnodes * 2], 0)

_write_1d_result(w, S, path, result_dict) ==
    Build(w, S, path, result_dict,
          {sc \in DOMAIN result_dict :
              result_dict[sc].has_element \/ result_dict[sc].has_element_node},
          [sc \in DOMAIN result_dict |-> result_dict[sc].nrows], 0)

_write_solid_stress(w, S, path, npts, result_dict) ==
    Build(w, S, path, result_dict, DOMAIN result_dict,
          [sc \in DOMAIN result_dict |-> result_dict[sc].nrows \div npts], 0)

_write_beam_stress(w, S, path, result_dict) ==
    Build(w, S, path, result_dict, DOMAIN result_dict,
          [sc \in DOMAIN result_dict |-> result_dict[sc].nrows], 0)

_write_beam_force(w, S, path, result_dict) ==
    Build(w, S, path, result_dict,
          {sc \in DOMAIN result_dict : result_dict[sc].has_element_node},
          [sc \in DOMAIN result_dict |-> result_dict[sc].nrows \div 2], 0)

RECURSIVE EigRowsNextStep(_, _, _, _, _, _)
\* Summary rows that ask for the key of the step after their own.
EigRowsNextStep(w, dom, sc, res, i, rows) ==
    IF i >= Len(The(res.modes)) THEN [dom |-> dom, rows |-> rows]
    ELSE LET g == get_id(w, dom, sc, i + 1, res)
         IN EigRowsNextStep(w, g.dom, sc, res, i + 1,
                            Append(rows, [ID |-> i + 1, DOMAIN_ID |-> g.did]))

RECURSIVE EigRows(_, _, _, _, _, _)
\* for i in range(n): did = dom.get_id(sc, i, res); arr[i]['DOMAIN_ID'] = did
EigRows(w, dom, sc, res, i, rows) ==
    IF i >= Len(The(res.modes)) THEN [dom |-> dom, rows |-> rows]
    ELSE LET g == get_id(w, dom, sc, i, res)
         IN EigRows(w, g.dom, sc, res, i + 1,
                    Append(rows, [ID |-> i + 1, DOMAIN_ID |-> g.did]))

\* idx_list.append((1, pos, n)) of the eigenvalue summary
EigIndexEntry(pos, n) == [DOMAIN_ID |-> 1, POSITION |-> pos, LENGTH |-> n]

RECURSIVE EigFill(_, _, _, _, _)
\* The load-case loop of _write_eigenvalue_summary from the k-th load case on.
EigFill(w, eig_dict, scs, k, acc) ==
    IF k > Len(scs) THEN acc
    ELSE LET sc == scs[k][1]
             res == eig_dict[sc]
             r == EigRows(w, acc.dom, sc, res, 0, <<>>)
             n == Len(The(res.modes))
         IN EigFill(w, eig_dict, scs, k + 1,
                    [dom |-> r.dom,
                     pos |-> Advance(acc.pos, n),
                     rows_list |-> Append(acc.rows_list, r.rows),
                     idx_list |-> Append(acc.idx_list, EigIndexEntry(acc.pos, n))])

_write_eigenvalue_summary(w, S, eig_dict) ==
    IF DOMAIN eig_dict = {} THEN S
    ELSE LET used == {sc \in DOMAIN eig_dict :
                         eig_dict[sc].modes # None /\ eig_dict[sc].eigrs # None}
             b == EigFill(w, eig_dict, LexSeq({<<sc, 0>> : sc \in used}), 1,
                          EmptyAcc(S.dom))
         IN [F |-> _save(w, S.F, "/NASTRAN/RESULT/SUMMARY/EIGENVALUE",
                         b.rows_list, b.idx_list, 0),
             dom |-> b.dom]

(***************************************************************************)
(* INPUT writers (desktop writer only).  Every INPUT record carries        *)
(* DOMAIN_ID = 1; a table of n cards is MkRows(n, 1).                      *)
(***************************************************************************)
\* The sub-types each by-type INPUT writer has a packing rule for, in the
\* order sorted(by_type.items()) visits them.
ElementTypes ==
    <<"CBAR", "CBEAM", "CBUSH", "CHEXA", "CONROD", "CPENTA", "CQUAD4", "CROD",
      "CTETRA", "CTRIA3">>
PropertyTypes ==
    <<"PBAR", "PBARL", "PBEAM", "PBUSH", "PCOMP", "PROD", "PSHELL", "PSOLID">>
MaterialTypes == <<"MAT1", "MAT2", "MAT8", "MAT9">>

\* The cards of one sub-type.
OfType(cards, t) == {id \in DOMAIN cards : cards[id] = t}

RECURSIVE Ascending(_)
\* sorted(cards, key=lambda e: e.eid): the ids of a set in ascending order
Ascending(ids) ==
    IF ids = {} THEN <<>>
    ELSE LET lo == CHOOSE x \in ids : \A y \in ids : x <= y
         IN <<lo>> \o Ascending(ids \ {lo})

RECURSIVE Descending(_)
\* The ids of a set, largest first.
Descending(ids) ==
    IF ids = {} THEN <<>>
    ELSE LET hi == CHOOSE x \in ids : \A y \in ids : x >= y
         IN <<hi>> \o Descending(ids \ {hi})

\* Records packed largest id first.
PackCardsDescending(cards, t) ==
    LET ids == Descending(OfType(cards, t))
    IN [i \in 1..Len(ids) |-> [ID |-> ids[i], DOMAIN_ID |-> 1]]

\* arr = np.zeros(n, dtype); for i, e in enumerate(elems_sorted): one record
\* per card of the sub-type, carrying the card's id.
PackCards(cards, t) ==
    LET ids == Ascending(OfType(cards, t))
    IN [i \in 1..Len(ids) |-> [ID |-> ids[i], DOMAIN_ID |-> 1]]

RECURSIVE WriteByType(_, _, _, _, _)
\* for type, cards in sorted(by_type.items()): pack, _ds_with_index
WriteByType(F, prefix, types, k, cards) ==
    IF k > Len(types) THEN F
    ELSE LET n == Cardinality(OfType(cards, types[k]))
         IN WriteByType(IF n = 0 THEN F
                        ELSE _ds_with_index(F, prefix \o types[k],
                                            PackCards(cards, types[k]), 0),
                        prefix, types, k + 1, cards)

_write_input_domains(F) ==
    _ds_with_index(F, "/NASTRAN/INPUT/DOMAINS", MkRows(1, 1), 0)

_write_input_grids(F, inp) ==
    IF inp.nodes = {} THEN F
    ELSE _ds_with_index(F, "/NASTRAN/INPUT/NODE/GRID",
                        MkRows(Cardinality(inp.nodes), 1), 0)

_write_input_elements(F, inp) ==
    WriteByType(F, "/NASTRAN/INPUT/ELEMENT/", ElementTypes, 1, inp.elements)

_write_input_properties(F, inp) ==
    WriteByType(F, "/NASTRAN/INPUT/PROPERTY/", PropertyTypes, 1, inp.properties)

_write_input_materials(F, inp) ==
    WriteByType(F, "/NASTRAN/INPUT/MATERIAL/", MaterialTypes, 1, inp.materials)

RECURSIVE SumOf(_, _)
\* sum of f[k] over k in S
SumOf(f, S) ==
    IF S = {} THEN 0
    ELSE LET k == CHOOSE x \in S : TRUE IN f[k] + SumOf(f, S \ {k})

\* _ds_with_index when the row list is not empty
WriteRows(F, path, n) ==
    IF n = 0 THEN F ELSE _ds_with_index(F, path, MkRows(n, 1), 0)

\* rigid[eid] = [type, ngm, nwt]: the card type, its number of dependent /
\* additional grids (Gmi) and, for RBE3, of weighted grids.
_write_input_rigid_elements(F, inp) ==
    LET rigid == inp.rigid_elements
        rbe2 == {e \in DOMAIN rigid : rigid[e].type = "RBE2"}
        rbe3 == {e \in DOMAIN rigid : rigid[e].type = "RBE3"}
        ngm == [e \in DOMAIN rigid |-> rigid[e].ngm]
        nwt == [e \in DOMAIN rigid |-> rigid[e].nwt]
        F2 == IF rbe2 = {} THEN F
              ELSE WriteRows(
                     WriteRows(
                       WriteRows(F, "/NASTRAN/INPUT/ELEMENT/RBE2/IDENTITY",
                                 Cardinality(rbe2)),
                       "/NASTRAN/INPUT/ELEMENT/RBE2/GM", SumOf(ngm, rbe2)),
                     "/NASTRAN/INPUT/ELEMENT/RBE2/RB", Cardinality(rbe2))
    IN IF rbe3 = {} THEN F2
       ELSE WriteRows(
              WriteRows(
                WriteRows(F2, "/NASTRAN/INPUT/ELEMENT/RBE3/IDENTITY",
                          Cardinality(rbe3)),
                "/NASTRAN/INPUT/ELEMENT/RBE3/WTCG", SumOf(nwt, rbe3)),
              "/NASTRAN/INPUT/ELEMENT/RBE3/G", SumOf(ngm, rbe3))

\* loads[lid] = the card type of the load with that id
_write_input_loads(F, inp) ==
    WriteRows(
      WriteRows(F, "/NASTRAN/INPUT/LOAD/FORCE",
                Cardinality(OfType(inp.loads, "FORCE"))),
      "/NASTRAN/INPUT/LOAD/MOMENT", Cardinality(OfType(inp.loads, "MOMENT")))

\* coords[cid] = whether the system has an origin; cid 0 (global) is skipped
_write_input_coords(F, inp) ==
    LET cids == DOMAIN inp.coords \ {0} IN
    WriteRows(
      WriteRows(F, "/NASTRAN/INPUT/COORDINATE_SYSTEM/R",
                Cardinality({c \in cids : inp.coords[c]})),
      "/NASTRAN/INPUT/COORDINATE_SYSTEM/G",
      Cardinality({c \in cids : ~inp.coords[c]}))

\* spcs[sid] = [type, nnodes]: one row per constrained node of an SPC / SPC1
_write_input_constraints(F, inp) ==
    LET sids == {s \in DOMAIN inp.spcs : inp.spcs[s].type \in {"SPC", "SPC1"}}
    IN WriteRows(F, "/NASTRAN/INPUT/CONSTRAINT/SPC",
                 SumOf([s \in DOMAIN inp.spcs |-> inp.spcs[s].nnodes], sids))

\* params[name] = the Python type of the first value ("none" when there is none)
_write_input_parameters(F, inp) ==
    WriteRows(
      WriteRows(
        WriteRows(F, "/NASTRAN/INPUT/PARAMETER/PVT/CHAR",
                  Cardinality(OfType(inp.params, "str"))),
        "/NASTRAN/INPUT/PARAMETER/PVT/DOUBLE",
        Cardinality(OfType(inp.params, "float"))),
      "/NASTRAN/INPUT/PARAMETER/PVT/INT", Cardinality(OfType(inp.params, "int")))

(***************************************************************************)
(* The source model.  op2 = [res, absent, inp]:                            *)
(*   res[a]   the per-load-case dictionary of result attribute a           *)
(*   absent   the result attributes the model object does not have at all  *)
(*            (only attributes the writers read with getattr(.., {}))      *)
(*   inp      the geometry side (cards), read by the INPUT writers         *)
(***************************************************************************)
NodalAttrs ==
    {"displacements", "eigenvectors", "spc_forces", "mpc_forces", "velocities",
     "accelerations", "load_vectors"}
PlateAttrs == {"cquad4_stress", "ctria3_stress", "cquad4_strain", "ctria3_strain"}
OneDAttrs ==
    {"cbar_stress", "crod_stress", "conrod_stress", "cbush_stress",
     "cbar_strain", "crod_strain", "conrod_strain", "cbush_strain",
     "cbar_force", "crod_force", "cbush_force", "cquad4_force", "ctria3_force"}
BeamAttrs == {"cbeam_stress", "cbeam_strain"}
HexaAttrs == {"chexa_stress", "chexa_strain"}
PentaAttrs == {"cpenta_stress", "cpenta_strain"}
TetraAttrs == {"ctetra_stress", "ctetra_strain"}
ResultAttrs ==
    NodalAttrs \cup {"grid_point_forces"} \cup PlateAttrs \cup OneDAttrs \cup
    BeamAttrs \cup HexaAttrs \cup PentaAttrs \cup TetraAttrs \cup {"cbeam_force"}

\* op2.<attr>
Attr(m, a) == m.res[a]

\* getattr(op2, attr, {})
GetAttr(m, a) == IF a \in m.absent THEN EmptyMap ELSE m.res[a]

(***************************************************************************)
(* write_msc_h5: the builder calls of each phase, in program order.        *)
(***************************************************************************)
Lower(category) == IF category = "STRESS" THEN "stress" ELSE "strain"

Call(kind, name, attr, npts) ==
    [kind |-> kind, name |-> name, attr |-> attr, npts |-> npts]

NodalCalls ==
    <<Call("nodal", "DISPLACEMENT", "displacements", 0),
      Call("nodal", "EIGENVECTOR", "eigenvectors", 0),
      Call("nodal", "SPC_FORCE", "spc_forces", 0),
      Call("nodal", "MPC_FORCE", "mpc_forces", 0),
      Call("nodal", "VELOCITY", "velocities", 0),
      Call("nodal", "ACCELERATION", "accelerations", 0),
      Call("nodal", "APPLIED_LOAD", "load_vectors", 0)>>

GridForceCalls == <<Call("grid_force", "GRID_FORCE", "grid_point_forces", 0)>>

\* One pass of `for category in ('STRESS', 'STRAIN')`.
StressCalls(w, category) ==
    LET cl == Lower(category) IN
    <<Call("plate", "QUAD4", "cquad4_" \o cl, 0),
      Call("plate", "TRIA3", "ctria3_" \o cl, 0)>>
    \o (IF w = "gui" /\ category = "STRESS"
        THEN <<Call("quad_cn", "QUAD_CN", "cquad4_" \o cl, 0)>> ELSE <<>>)
    \o <<Call("1d", "BAR", "cbar_" \o cl, 0),
         Call("1d", "ROD", "crod_" \o cl, 0),
         Call("1d", "CONROD", "conrod_" \o cl, 0),
         Call("1d", "BUSH", "cbush_" \o cl, 0)>>
    \o (IF w = "gui" THEN <<Call("beam_stress", "BEAM", "cbeam_" \o cl, 0)>>
        ELSE <<>>)
    \o <<Call("solid", "HEXA", "chexa_" \o cl, 9),
         Call("solid", "PENTA", "cpenta_" \o cl, 7),
         Call("solid", "TETRA", "ctetra_" \o cl, 5)>>

ForceCalls(w) ==
    <<Call("1d", "BAR", "cbar_force", 0),
      Call("1d", "ROD", "crod_force", 0),
      Call("1d", "BUSH", "cbush_force", 0),
      Call("1d", "QUAD4", "cquad4_force", 0)>>
    \o (IF w = "gui"
        THEN <<Call("1d", "TRIA3", "ctria3_force", 0),
               Call("beam_force", "BEAM", "cbeam_force", 0)>>
        ELSE <<>>)

\* has_corner: some load case declares more than one sample point
HasCorner(rdict) == \E sc \in DOMAIN rdict : NNodes(rdict[sc]) > 1

\* `if rdict:` (for QUAD_CN: `if has_corner:`)
Wanted(c, rdict) ==
    IF c.kind = "quad_cn" THEN HasCorner(rdict) ELSE DOMAIN rdict # {}

\* One guarded builder call of the orchestration; `group` is the result
\* group the call writes under (STRESS, STRAIN or ELEMENT_FORCE).
RunCall(w, S, c, group, m) ==
    LET rdict == IF c.kind = "nodal" THEN Attr(m, c.attr) ELSE GetAttr(m, c.attr)
        path == "/NASTRAN/RESULT/ELEMENTAL/" \o group \o "/" \o c.name
    IN IF ~Wanted(c, rdict) \/ S.F.err THEN S
       ELSE CASE c.kind = "nodal" -> _write_nodal(w, S, c.name, rdict)
              [] c.kind = "grid_force" -> _write_grid_force(w, S, rdict)
              [] c.kind = "plate" -> _write_plate_stress(w, S, c.name, rdict, group)
              [] c.kind = "quad_cn" -> _write_quad_cn_stress(w, S, rdict, group)
              [] c.kind = "1d" -> _write_1d_result(w, S, path, rdict)
              [] c.kind = "beam_stress" -> _write_beam_stress(w, S, path, rdict)
              [] c.kind = "solid" -> _write_solid_stress(w, S, path, c.npts, rdict)
              [] c.kind = "beam_force" -> _write_beam_force(w, S, path, rdict)

RECURSIVE RunCalls(_, _, _, _, _, _)
RunCalls(w, S, calls, k, group, m) ==
    IF k > Len(calls) THEN S
    ELSE RunCalls(w, RunCall(w, S, calls[k], group, m), calls, k + 1, group, m)

\* The INPUT writers after _write_input_domains, in program order.
WriteInputs(F, inp) ==
    _write_input_parameters(
      _write_input_constraints(
        _write_input_coords(
          _write_input_loads(
            _write_input_materials(
              _write_input_properties(
                _write_input_rigid_elements(
                  _write_input_elements(
                    _write_input_grids(F, inp), inp), inp), inp), inp), inp),
          inp), inp), inp)

\* The RESULT DOMAINS table at the end of the pass.
WriteDomains(w, S) ==
    LET domains_arr == to_array(S.dom) IN
    IF Len(domains_arr) = 0 THEN S
    ELSE [S EXCEPT !.F = IF w = "gui"
                         THEN _ds_with_index(S.F, "/NASTRAN/RESULT/DOMAINS",
                                             domains_arr, 0)
                         ELSE create_dataset(S.F, "/NASTRAN/RESULT/DOMAINS",
                                             domains_arr)]

MSC_SCHEMA_VERSION == 20182

(***************************************************************************)
(* Actions                                                                 *)
(***************************************************************************)
\* What the running conversion holds: the open container and its registry.
Cur == [F |-> [h5 |-> h5, created |-> created, err |-> FALSE],
        dom |-> [_map |-> _map, _records |-> _records]]

\* Store the state a phase leaves behind; an exception ends the pass.
Commit(S, next) ==
    /\ h5' = S.F.h5
    /\ created' = S.F.created
    /\ _map' = S.dom._map
    /\ _records' = S.dom._records
    /\ pc' = IF S.F.err THEN "failed" ELSE next
    /\ UNCHANGED <<writer, op2, attrs, last, batch>>

\* h5.attrs['SCHEMA'] = MSC_SCHEMA_VERSION
WriteSchema ==
    /\ pc = "schema"
    /\ attrs' = ("SCHEMA" :> MSC_SCHEMA_VERSION) @@ attrs
    /\ pc' = "input_domains"
    /\ UNCHANGED <<writer, op2, _map, _records, h5, created, last, batch>>

WriteInputDomains ==
    /\ pc = "input_domains"
    /\ Commit([Cur EXCEPT !.F = _write_input_domains(Cur.F)], "input")

WriteInputTables ==
    /\ pc = "input"
    /\ Commit([Cur EXCEPT !.F = WriteInputs(Cur.F, op2.inp)], "nodal")

WriteNodal ==
    /\ pc = "nodal"
    /\ Commit(RunCalls(writer, Cur, NodalCalls, 1, "", op2),
              IF writer = "gui" THEN "grid_force" ELSE "stress")

WriteGridForce ==
    /\ pc = "grid_force"
    /\ Commit(RunCalls(writer, Cur, GridForceCalls, 1, "", op2), "stress")

WriteStress ==
    /\ pc = "stress"
    /\ Commit(RunCalls(writer, Cur, StressCalls(writer, "STRESS"), 1, "STRESS", op2),
              "strain")

WriteStrain ==
    /\ pc = "strain"
    /\ Commit(RunCalls(writer, Cur, StressCalls(writer, "STRAIN"), 1, "STRAIN", op2),
              "force")

WriteElementForce ==
    /\ pc = "force"
    /\ Commit(RunCalls(writer, Cur, ForceCalls(writer), 1, "ELEMENT_FORCE", op2),
              IF writer = "gui" THEN "eigen" ELSE "domains")

WriteEigenvalueSummary ==
    /\ pc = "eigen"
    /\ Commit(_write_eigenvalue_summary(writer, Cur, Attr(op2, "eigenvectors")),
              "domains")

WriteResultDomains ==
    /\ pc = "domains"
    /\ Commit(WriteDomains(writer, Cur), "done")

\* A direct call dom.get_id(subcase, itime, result) on the registry, with a
\* result object of the model (any attribute's, any load case's).
GetId(subcase, itime, result) ==
    /\ pc = "registry"
    /\ LET g == get_id(writer, Cur.dom, subcase, itime, result) IN
       /\ Len(g.dom._records) <= MaxDomains
       /\ _map' = g.dom._map
       /\ _records' = g.dom._records
       /\ last' = [subcase |-> subcase, itime |-> itime, result |-> result,
                   did |-> g.did]
    /\ UNCHANGED <<writer, op2, pc, h5, attrs, created, batch>>

\* The result objects a model holds.
ResultsOf(m) == UNION {{m.res[a][sc] : sc \in DOMAIN m.res[a]} : a \in ResultAttrs}

CallGetId ==
    \E subcase \in Subcases, itime \in StepIdx, result \in ResultsOf(op2) :
        GetId(subcase, itime, result)

(***************************************************************************)
(* Source models the runs start from.                                      *)
(***************************************************************************)
\* Rows of the entity array per entity, as the provider lays them out for
\* attribute a: plates carry top and bottom per sample point, solids one row
\* per sample point, beam forces one row per end.
RowsPer(a, r) ==
    IF a \in PlateAttrs THEN 2 * NNodes(r)
    ELSE IF a \in HexaAttrs THEN 9
    ELSE IF a \in PentaAttrs THEN 7
    ELSE IF a \in TetraAttrs THEN 5
    ELSE IF a = "cbeam_force" THEN 2
    ELSE 1

\* The optional attributes a result object may carry.
Flavour(r, f) ==
    CASE f = "plain" -> r
      [] f = "modal" ->
            [r EXCEPT !.analysis_code = Some(2),
                      !.modes = Some([i \in 1..r.ntimes |-> i]),
                      !.eigrs = Some([i \in 1..r.ntimes |-> 10 * i])]
      [] f = "long" ->
            [r EXCEPT !.analysis_code = Some(2),
                      !.modes = Some([i \in 1..(r.ntimes + 1) |-> i]),
                      !.eigrs = Some([i \in 1..(r.ntimes + 1) |-> 10 * i])]
      [] f = "corner_npe" -> [r EXCEPT !.nnodes_per_element = Some(5)]
      [] f = "corner_nn" -> [r EXCEPT !.nnodes = Some(5)]
      [] f = "element" -> [r EXCEPT !.has_element = TRUE, !.has_element_node = FALSE]
      [] f = "neither" -> [r EXCEPT !.has_element = FALSE, !.has_element_node = FALSE]

Flavours(a) ==
    IF a = "eigenvectors" THEN {"plain", "modal", "long"}
    ELSE IF a \in NodalAttrs THEN {"plain", "modal"}
    ELSE IF a \in PlateAttrs THEN {"plain", "corner_npe", "corner_nn"}
    ELSE IF a \in OneDAttrs THEN {"plain", "element", "neither"}
    ELSE IF a = "cbeam_force" THEN {"plain", "element"}
    ELSE {"plain"}

\* A result of attribute a with k entities, T steps and flavour f.
Mk(a, k, T, f) ==
    LET r == Flavour(Result(0, T), f) IN [r EXCEPT !.nrows = k * RowsPer(a, r)]

EmptyRes == [a \in ResultAttrs |-> EmptyMap]

EmptyInput ==
    [nodes |-> {}, elements |-> EmptyMap, properties |-> EmptyMap,
     materials |-> EmptyMap, rigid_elements |-> EmptyMap, loads |-> EmptyMap,
     coords |-> EmptyMap, spcs |-> EmptyMap, params |-> EmptyMap]

BaseInput == [EmptyInput EXCEPT !.nodes = {1}, !.elements = (1 :> "CQUAD4")]

Ids == UNION {{1..k} : k \in 0..MaxEnt}

\* The ids of the element, property and material cards of a model.
MaxCards == 3
CardIds == UNION {{1..k} : k \in 0..MaxCards}

\* Geometry sides: one kind of card at a time, each with supported and
\* unsupported sub-types.
InputModels ==
    {[EmptyInput EXCEPT !.nodes = ids] : ids \in Ids}
    \cup UNION {{[EmptyInput EXCEPT !.elements = f] :
                    f \in [ids -> {"CQUAD4", "CBAR", "CGAP"}]} : ids \in CardIds}
    \cup UNION {{[EmptyInput EXCEPT !.properties = f] :
                    f \in [ids -> {"PSHELL", "PCOMP", "PGAP"}]} : ids \in CardIds}
    \cup UNION {{[EmptyInput EXCEPT !.materials = f] :
                    f \in [ids -> {"MAT1", "MAT8", "MAT4"}]} : ids \in CardIds}
    \cup UNION {{[EmptyInput EXCEPT !.rigid_elements = f] :
                    f \in [ids -> {[type |-> "RBE2", ngm |-> 1, nwt |-> 0],
                                   [type |-> "RBE2", ngm |-> 0, nwt |-> 0],
                                   [type |-> "RBE3", ngm |-> 0, nwt |-> 1],
                                   [type |-> "RBAR", ngm |-> 0, nwt |-> 0]}]} :
                ids \in Ids}
    \cup UNION {{[EmptyInput EXCEPT !.loads = f] :
                    f \in [ids -> {"FORCE", "MOMENT", "PLOAD4"}]} : ids \in Ids}
    \cup UNION {{[EmptyInput EXCEPT !.coords = f] :
                    f \in [{0} \cup ids -> BOOLEAN]} : ids \in Ids}
    \cup UNION {{[EmptyInput EXCEPT !.spcs = f] :
                    f \in [ids -> {[type |-> "SPC1", nnodes |-> 2],
                                   [type |-> "SPC", nnodes |-> 0],
                                   [type |-> "SPCADD", nnodes |-> 1]}]} : ids \in Ids}
    \cup UNION {{[EmptyInput EXCEPT !.params = f] :
                    f \in [names -> {"str", "float", "int", "none"}]} :
                names \in SUBSET {"POST", "G"}}

LoadCaseSets == (SUBSET Subcases) \ {{}}

\* The attributes write_msc_h5 reads with getattr(op2, attr, {}).
Guarded == ResultAttrs \ NodalAttrs

\* The fewest entities a result object of attribute a holds: a solid result
\* has an element, as reshape(n_elem, npts, -1) has no meaning on no rows.
MinEnt(a) == IF a \in HexaAttrs \cup PentaAttrs \cup TetraAttrs THEN 1 ELSE 0

\* One non-empty result attribute; every other dictionary is empty.
SingleModels ==
    UNION {UNION {
        {[res |-> [EmptyRes EXCEPT ![a] = [sc \in S |-> Mk(a, k, T, f)]],
          absent |-> {}, inp |-> BaseInput] :
            S \in LoadCaseSets, k \in MinEnt(a)..MaxEnt, T \in 0..MaxSteps}
        : f \in Flavours(a)} : a \in ResultAttrs}

SecondaryAttrs == {"displacements", "eigenvectors", "cbar_force"}

\* Two non-empty result attributes over independently chosen load cases; the
\* attributes read with getattr and left empty are missing from the object.
PairModels ==
    UNION {
        {[res |-> [EmptyRes EXCEPT ![a] = [sc \in S1 |-> Mk(a, 1, 1, "plain")],
                                   ![b] = [sc \in S2 |-> Mk(b, 1, MaxSteps, "modal")]],
          absent |-> Guarded \ {a, b}, inp |-> EmptyInput] :
            S1 \in LoadCaseSets, S2 \in LoadCaseSets, b \in SecondaryAttrs \ {a}}
        : a \in ResultAttrs}

\* No results or one displacement result, over every geometry side.
GeometryModels ==
    {[res |-> [EmptyRes EXCEPT !["displacements"] = d], absent |-> {}, inp |-> i] :
        d \in {EmptyMap, (1 :> Mk("displacements", 1, 1, "plain"))},
        i \in InputModels}

ConvModels == SingleModels \cup PairModels \cup GeometryModels

\* Registry runs: two result objects with different metadata, so that a key
\* can be asked for again with another object.
RegModels ==
    {[res |-> [EmptyRes EXCEPT
                 !["displacements"] =
                     [sc \in Subcases |-> Mk("displacements", 1, MaxSteps, "plain")],
                 !["eigenvectors"] =
                     [sc \in Subcases |-> Mk("eigenvectors", 1, MaxSteps, "modal")]],
      absent |-> {}, inp |-> EmptyInput]}

\* Metadata runs: one result object over every combination of the optional
\* analysis_code, sol and solution attributes.
MetaModels ==
    {[res |-> [EmptyRes EXCEPT !["displacements"] =
                 (1 :> [Mk("displacements", 1, 1, f) EXCEPT
                          !.analysis_code = ac, !.sol = sol, !.solution = solution])],
      absent |-> {}, inp |-> EmptyInput] :
        f \in {"plain"},
        ac \in {None, Some(0), Some(2), Some(6)},
        sol \in {None, Some(0), Some(101), Some(103), Some(999)},
        solution \in {None, Some(105), Some(999)}}

\* End-to-end runs: one nodal category, S load cases of T steps and N nodes.
E2EModels ==
    UNION {
        {[res |-> [EmptyRes EXCEPT ![a] = [sc \in 1..S |-> Mk(a, N, T, f)]],
          absent |-> Guarded, inp |-> EmptyInput] :
            S \in 0..MaxSubcase, T \in 0..E2ESteps, N \in 0..E2EEnt,
            f \in Flavours(a)}
        : a \in NodalAttrs}

NoCall == [subcase |-> 0, itime |-> 0, result |-> Result(0, 0), did |-> 0]

\* No driver loop: write_msc_h5 or the registry is exercised on its own.
NoBatch == [files |-> <<>>, i |-> 0, success |-> 0, failed |-> 0,
            outcomes |-> <<>>, exit |-> {}, disk |-> EmptyMap]

\* The state write_msc_h5 starts from: dom = _Domains(), a new empty file.
Start(models, first) ==
    /\ writer \in {"gui", "cli"}
    /\ op2 \in models
    /\ pc = IF first # "" THEN first
            ELSE IF writer = "gui" THEN "schema" ELSE "nodal"
    /\ _map = NewDomains._map
    /\ _records = NewDomains._records
    /\ h5 = EmptyFile.h5
    /\ attrs = EmptyMap
    /\ created = EmptyFile.created
    /\ last = NoCall
    /\ batch = NoBatch

Init == Start(ConvModels, "")
InitE2E == Start(E2EModels, "")
InitReg == Start(RegModels, "registry")
InitMeta == Start(MetaModels, "registry")

Next ==
    \/ WriteSchema
    \/ WriteInputDomains
    \/ WriteInputTables
    \/ WriteNodal
    \/ WriteGridForce
    \/ WriteStress
    \/ WriteStrain
    \/ WriteElementForce
    \/ WriteEigenvalueSummary
    \/ WriteResultDomains

\* One conversion, any source model.
Spec == Init /\ [][Next]_vars

\* One conversion of a model with a single nodal category.
SpecE2E == InitE2E /\ [][Next]_vars

\* The registry alone under arbitrary get_id calls.
SpecReg == InitReg /\ [][CallGetId]_vars

\* The registry alone, one result object, every analysis metadata.
SpecMeta == InitMeta /\ [][CallGetId]_vars

(***************************************************************************)
(* Properties                                                              *)
(***************************************************************************)
LastKey == <<last.subcase, last.itime>>

\* C1: a get_id call whose (subcase, step) key is already registered returns
\* the ID the key got at its first call and changes neither the key-to-ID map
\* nor the domain records, whatever metadata the result object of the later
\* call carries; and no call changes the ID or the record of a registered key.
C1_RepeatedKeyKeepsId ==
    [][/\ \A k \in DOMAIN _map : k \in DOMAIN _map' /\ _map'[k] = _map[k]
       /\ \A i \in 1..Len(_records) :
              i <= Len(_records') /\ _records'[i] = _records[i]
       /\ (last' # last /\ <<last'.subcase, last'.itime>> \in DOMAIN _map) =>
              /\ last'.did = _map[<<last'.subcase, last'.itime>>]
              /\ _map' = _map
              /\ _records' = _records]_vars

\* C1 witness: the last call asked for a registered key with a result object
\* whose metadata differ from the record made at the first call.
C1_Witness ==
    /\ last.did > 0
    /\ _records[last.did] #
           DomainRecord(writer, last.did, last.subcase, last.itime, last.result)

\* C2: the key-to-ID map is a bijection from the registered keys onto 1..N,
\* N the number of domain records; the k-th key to be registered gets ID k,
\* and the k-th record (the k-th row of to_array()) has ID k and the load case
\* of the key with ID k.
C2_DenseIds ==
    /\ [](/\ Cardinality(DOMAIN _map) = Len(_records)
          /\ {_map[k] : k \in DOMAIN _map} = 1..Len(_records)
          /\ \A i \in 1..Len(to_array(Cur.dom)) : to_array(Cur.dom)[i].ID = i
          /\ \A k \in DOMAIN _map : _records[_map[k]].SUBCASE = k[1]
          /\ last.did > 0 => LastKey \in DOMAIN _map /\ _map[LastKey] = last.did)
    /\ [][\A k \in DOMAIN _map' \ DOMAIN _map :
              _map'[k] = Cardinality(DOMAIN _map) + 1]_vars

\* C2 witness: as many keys registered as the runs allow, over two load cases.
C2_Witness ==
    /\ Len(_records) = MaxDomains
    /\ \E k1, k2 \in DOMAIN _map : k1[1] # k2[1]

\* C10 (as claimed, for both writers): the ANALYSIS value of a created domain
\* is the result's analysis code when that attribute is present and non-zero,
\* otherwise the fixed table's value for the declared solution sequence,
\* otherwise 1 (static); never anything else.
C10_AnalysisKind ==
    \A i \in 1..Len(_records) :
        LET r == last.result
            a == _records[i].ANALYSIS
            code == r.analysis_code
            sol == IF r.sol \notin {None, Some(0)} THEN r.sol ELSE r.solution
        IN last.did > 0 =>
            IF code \notin {None, Some(0)} THEN Some(a) = code
            ELSE IF sol # None /\ The(sol) \in DOMAIN _SOL_ANALYSIS
                 THEN a = _SOL_ANALYSIS[The(sol)]
                 ELSE a = 1

(***************************************************************************)
(* The tables of a file, by the phase that writes them.                    *)
(***************************************************************************)
Range(seq) == {seq[i] : i \in 1..Len(seq)}

InputDomainTable == "/NASTRAN/INPUT/DOMAINS"
ResultDomainTable == "/NASTRAN/RESULT/DOMAINS"
SummaryTable == "/NASTRAN/RESULT/SUMMARY/EIGENVALUE"

InputTables ==
    {"/NASTRAN/INPUT/NODE/GRID", "/NASTRAN/INPUT/CONSTRAINT/SPC"}
    \cup {"/NASTRAN/INPUT/ELEMENT/" \o t : t \in Range(ElementTypes)}
    \cup {"/NASTRAN/INPUT/PROPERTY/" \o t : t \in Range(PropertyTypes)}
    \cup {"/NASTRAN/INPUT/MATERIAL/" \o t : t \in Range(MaterialTypes)}
    \cup {"/NASTRAN/INPUT/ELEMENT/RBE2/" \o t : t \in {"IDENTITY", "GM", "RB"}}
    \cup {"/NASTRAN/INPUT/ELEMENT/RBE3/" \o t : t \in {"IDENTITY", "WTCG", "G"}}
    \cup {"/NASTRAN/INPUT/LOAD/" \o t : t \in {"FORCE", "MOMENT"}}
    \cup {"/NASTRAN/INPUT/COORDINATE_SYSTEM/" \o t : t \in {"R", "G"}}
    \cup {"/NASTRAN/INPUT/PARAMETER/PVT/" \o t : t \in {"CHAR", "DOUBLE", "INT"}}

\* The path a builder call writes; group is "" for the nodal calls.
TableOf(c, group) ==
    IF c.kind \in {"nodal", "grid_force"} THEN "/NASTRAN/RESULT/NODAL/" \o c.name
    ELSE "/NASTRAN/RESULT/ELEMENTAL/" \o group \o "/" \o c.name

\* The result categories of writer w: builder call, result group and table.
Categories(w) ==
    {[call |-> c, group |-> "NODAL", path |-> TableOf(c, "")] :
        c \in Range(NodalCalls) \cup (IF w = "gui" THEN Range(GridForceCalls) ELSE {})}
    \cup UNION {{[call |-> c, group |-> g, path |-> TableOf(c, g)] :
                   c \in Range(StressCalls(w, g))} : g \in {"STRESS", "STRAIN"}}
    \cup {[call |-> c, group |-> "ELEMENT_FORCE", path |-> TableOf(c, "ELEMENT_FORCE")] :
            c \in Range(ForceCalls(w))}

\* The per-category result tables either writer can produce.
ResultTables ==
    {cat.path : cat \in Categories("gui") \cup Categories("cli")} \cup {SummaryTable}

\* The phase of the pass a table (or its index mirror) belongs to; the root
\* schema marker is phase 1.
PhaseTables ==
    [k \in 2..10 |->
        CASE k = 2 -> {InputDomainTable}
          [] k = 3 -> InputTables
          [] k = 4 -> {cat.path : cat \in
                          {x \in Categories("gui") : x.call.kind = "nodal"}}
          [] k = 5 -> {cat.path : cat \in
                          {x \in Categories("gui") : x.call.kind = "grid_force"}}
          [] k = 6 -> {cat.path : cat \in
                          {x \in Categories("gui") : x.group = "STRESS"}}
          [] k = 7 -> {cat.path : cat \in
                          {x \in Categories("gui") : x.group = "STRAIN"}}
          [] k = 8 -> {cat.path : cat \in
                          {x \in Categories("gui") : x.group = "ELEMENT_FORCE"}}
          [] k = 9 -> {SummaryTable}
          [] k = 10 -> {ResultDomainTable}]

PhaseOf(path) ==
    CHOOSE k \in 2..10 :
        path \in PhaseTables[k] \cup {IndexPath(q) : q \in PhaseTables[k]}

TableLen(path) == IF path \in DOMAIN h5 THEN Len(h5[path].data) ELSE 0

\* The tables of the file that have an index mirror.
Indexed == {q \in DOMAIN h5 : IndexPath(q) \in DOMAIN h5}

\* C3: for every table of the file that has an index mirror, the entries of
\* the mirror tile the table: the first starts at 0, each next one starts
\* where the previous one ends, and the last one ends at the record count (so
\* the lengths add up to the record count).
C3_IndexTiles ==
    \A q \in Indexed :
        LET idx == h5[IndexPath(q)].data IN
        /\ Len(idx) >= 1
        /\ idx[1].POSITION = 0
        /\ \A i \in 2..Len(idx) :
               idx[i].POSITION = idx[i - 1].POSITION + idx[i - 1].LENGTH
        /\ idx[Len(idx)].POSITION + idx[Len(idx)].LENGTH = Len(h5[q].data)

\* C3 witness: a finished file with a result table of three or more runs and
\* a geometry table, both with records.
C3_Witness ==
    /\ pc = "done"
    /\ \E q \in Indexed \cap ResultTables :
           Len(h5[IndexPath(q)].data) >= 3 /\ Len(h5[q].data) >= 3
    /\ \E q \in Indexed \cap InputTables : Len(h5[q].data) >= 1

\* C4 (as claimed, the eigenvalue summary included): in every result table,
\* the records in the run of an index entry all carry the entry's domain ID.
C4_RunsCarryEntryDomain ==
    \A q \in Indexed \cap ResultTables :
        LET idx == h5[IndexPath(q)].data
            data == h5[q].data
        IN \A i \in 1..Len(idx) :
               \A j \in (idx[i].POSITION + 1)..(idx[i].POSITION + idx[i].LENGTH) :
                   j <= Len(data) /\ data[j].DOMAIN_ID = idx[i].DOMAIN_ID

\* The load cases, steps and nodes of a category whose load cases all have
\* the same shape.
Shape(rd) ==
    [S |-> Cardinality(DOMAIN rd),
     T |-> IF DOMAIN rd = {} THEN 0 ELSE rd[CHOOSE sc \in DOMAIN rd : TRUE].ntimes,
     N |-> IF DOMAIN rd = {} THEN 0 ELSE rd[CHOOSE sc \in DOMAIN rd : TRUE].nrows]

\* Every per-step array of the category has one entry per step.
OnePerStep(rd) ==
    \A sc \in DOMAIN rd :
        \A arr \in {rd[sc].modes, rd[sc].eigrs, rd[sc]._times, rd[sc].eigis} :
            arr = None \/ Len(The(arr)) = rd[sc].ntimes

\* C5: a finished conversion of one nodal category with S load cases of T steps
\* and N nodes each (per-step arrays of T entries) has S*T*N records in the
\* nodal table, S*T rows in the RESULT domain table with IDs 1..S*T in
\* ascending (load case, step) order, and S*T index entries of length N at
\* offsets 0, N, 2N, ..., the i-th for domain i; a table of no rows is absent.
C5_EndToEnd ==
    pc = "done" =>
        \A c \in Range(NodalCalls) :
            LET rd == op2.res[c.attr]
                sh == Shape(rd)
                q == TableOf(c, "")
                idx == h5[IndexPath(q)].data
                doms == h5[ResultDomainTable].data
            IN (sh.S > 0 /\ OnePerStep(rd)) =>
                /\ TableLen(q) = sh.S * sh.T * sh.N
                /\ TableLen(ResultDomainTable) = sh.S * sh.T
                /\ (q \in DOMAIN h5) = (sh.S * sh.T > 0)
                /\ (q \in DOMAIN h5) = (IndexPath(q) \in DOMAIN h5)
                /\ sh.S * sh.T > 0 =>
                      /\ Len(idx) = sh.S * sh.T
                      /\ \A i \in 1..Len(idx) :
                             /\ idx[i] = [DOMAIN_ID |-> i,
                                          POSITION |-> (i - 1) * sh.N,
                                          LENGTH |-> sh.N]
                             /\ doms[i].ID = i
                             /\ doms[i].SUBCASE = ((i - 1) \div sh.T) + 1
                             /\ _map[<<((i - 1) \div sh.T) + 1, (i - 1) % sh.T>>] = i
                             /\ \A j \in ((i - 1) * sh.N + 1)..(i * sh.N) :
                                    h5[q].data[j].DOMAIN_ID = i

\* C5 witness: S = 2, T = 3, N = 5 gives 30 records, 6 domains and index
\* offsets 0, 5, 10, 15, 20, 25.
C5_Witness ==
    /\ pc = "done"
    /\ \E c \in Range(NodalCalls) :
           /\ Shape(op2.res[c.attr]) = [S |-> 2, T |-> 3, N |-> 5]
           /\ TableLen(TableOf(c, "")) = 30
           /\ TableLen(ResultDomainTable) = 6
           /\ [i \in 1..6 |-> h5[IndexPath(TableOf(c, ""))].data[i].POSITION]
                  = <<0, 5, 10, 15, 20, 25>>

\* The builder of a category skips the load case: a 1-D result with neither
\* an element nor an element_node array, a beam force without element_node,
\* a corner table for a result of one sample point.
Skipped(kind, res) ==
    \/ kind = "1d" /\ ~res.has_element /\ ~res.has_element_node
    \/ kind = "beam_force" /\ ~res.has_element_node
    \/ kind = "quad_cn" /\ NNodes(res) <= 1

\* The category has no load case, or its builder produces no record run.
NoRun(cat) ==
    LET rd == GetAttr(op2, cat.call.attr) IN
    \A sc \in DOMAIN rd : rd[sc].ntimes = 0 \/ Skipped(cat.call.kind, rd[sc])

\* C6: a result category with no load case, or whose builder produces no
\* record run, has neither a table nor an index in the file, and the pass
\* raises no error.
C6_EmptyCategoryAbsent ==
    /\ pc # "failed"
    /\ \A cat \in Categories(writer) :
           NoRun(cat) => cat.path \notin DOMAIN h5 /\ IndexPath(cat.path) \notin DOMAIN h5
    /\ (\A sc \in DOMAIN op2.res["eigenvectors"] :
            op2.res["eigenvectors"][sc].modes = None
            \/ op2.res["eigenvectors"][sc].eigrs = None)
           => SummaryTable \notin DOMAIN h5 /\ IndexPath(SummaryTable) \notin DOMAIN h5

\* C6 witness: a finished pass in which a builder ran over a non-empty
\* category and produced no run, next to a category that got its table.
C6_Witness ==
    /\ pc = "done"
    /\ \E cat \in Categories(writer) :
           DOMAIN GetAttr(op2, cat.call.attr) # {} /\ NoRun(cat)
    /\ \E cat \in Categories(writer) : cat.path \in DOMAIN h5

\* C7 (as claimed, for both writers): the tables are created in the order of
\* the phases, the root schema marker is in place before any table exists,
\* and the RESULT domain table exists only when every builder has run.
C7_PhaseOrder ==
    /\ \A i, j \in 1..Len(created) :
           i < j => PhaseOf(created[i]) <= PhaseOf(created[j])
    /\ created # <<>> => "SCHEMA" \in DOMAIN attrs
    /\ ResultDomainTable \in DOMAIN h5 => pc = "done"

\* C8 (as claimed, for both writers): every table and index table of the
\* file carries a version attribute.
C8_VersionOnEveryTable ==
    \A q \in DOMAIN h5 : h5[q].version # None

RowEnt == 2
RowSteps == 2
RowCols == 7

\* A source value that identifies its step, row and column; never 0.
Data(it, r, c) == 10000 * (it + 1) + 100 * r + c + 1

\* The arrays of a result object with the given shape.
Arrays(ntimes, nrows, ncols) ==
    [ncols |-> ncols,
     data |-> [it \in 0..(ntimes - 1) |->
                  [r \in 0..(nrows - 1) |-> [c \in 0..(ncols - 1) |-> Data(it, r, c)]]],
     element_node |-> [r \in 0..(nrows - 1) |-> <<100 + r, 200 + r>>],
     element |-> [r \in 0..(nrows - 1) |-> 300 + r],
     node_gridtype |-> [r \in 0..(nrows - 1) |-> <<400 + r, 1>>],
     node_element |-> [r \in 0..(nrows - 1) |-> <<500 + r, 600 + r>>]]

\* What one step yields: the array of records, or an exception.
Ok(arr) == [err |-> FALSE, arr |-> arr]
Raised == [err |-> TRUE, arr |-> <<>>]

NODAL_COLS ==
    <<<<"X", 0>>, <<"Y", 1>>, <<"Z", 2>>, <<"RX", 3>>, <<"RY", 4>>, <<"RZ", 5>>>>
GRID_FORCE_COLS ==
    <<<<"F1", 0>>, <<"F2", 1>>, <<"F3", 2>>, <<"M1", 3>>, <<"M2", 4>>, <<"M3", 5>>>>
ROD_STRESS_COLS == <<<<"A", 0>>, <<"MSA", 1>>, <<"T", 2>>, <<"MST", 3>>>>
BUSH_STRESS_COLS ==
    <<<<"TX", 0>>, <<"TY", 1>>, <<"TZ", 2>>, <<"RX", 3>>, <<"RY", 4>>, <<"RZ", 5>>>>
BAR_FORCE_COLS ==
    <<<<"BM1A", 0>>, <<"BM2A", 1>>, <<"BM1B", 2>>, <<"BM2B", 3>>,
      <<"TS1", 4>>, <<"TS2", 5>>, <<"AF", 6>>, <<"TRQ", 7>>>>
ROD_FORCE_COLS == <<<<"AF", 0>>, <<"TRQ", 1>>>>
BEAM_STRESS_COLS ==
    <<<<"LONG", 0>>, <<"LS1", 1>>, <<"LS2", 2>>, <<"LS3", 3>>, <<"LS4", 4>>,
      <<"SMAX", 5>>, <<"SMIN", 6>>>>
BEAM_FORCE_COLS ==
    <<<<"BM1", 0>>, <<"BM2", 1>>, <<"TS1", 2>>, <<"TS2", 3>>, <<"AF", 4>>,
      <<"TRQ", 5>>>>

\* np.zeros(...) then `if col_idx < d.shape[1]: arr[field_name] = d[:, col_idx]`:
\* the fields of col_map for one source row.
FillPresent(col_map, row, ncols) ==
    [f \in {col_map[i][1] : i \in 1..Len(col_map)} |->
        LET col == col_map[CHOOSE i \in 1..Len(col_map) : col_map[i][1] = f][2]
        IN IF col < ncols THEN row[col] ELSE 0]

\* _write_nodal: the records of step it.
NodalArr(res, it, did) ==
    Ok([k \in 1..res.nrows |->
          [ID |-> res.node_gridtype[k - 1][1], DOMAIN_ID |-> did]
          @@ FillPresent(NODAL_COLS, res.data[it][k - 1], res.ncols)])

\* _write_grid_force: the records of step it (element names left out).
GridForceArr(res, it, did) ==
    Ok([k \in 1..res.nrows |->
          [ID |-> res.node_element[k - 1][1], EID |-> res.node_element[k - 1][2],
           DOMAIN_ID |-> did]
          @@ FillPresent(GRID_FORCE_COLS, res.data[it][k - 1], res.ncols)])

\* The plate step body with the stride of center-only output, whatever the
\* source declares.
PlateArrStrideTwo(res, it, did) ==
    LET en == res.element_node
        n_elem == res.nrows \div 2
        d == res.data[it]
    IN IF res.ncols < 4 THEN Raised
       ELSE Ok([k \in 1..n_elem |->
                  LET top == d[(k - 1) * 2]
                      bot == d[(k - 1) * 2 + 1]
                  IN [EID |-> en[(k - 1) * 2][1],
                      FD1 |-> top[0], X1 |-> top[1], Y1 |-> top[2], XY1 |-> top[3],
                      FD2 |-> bot[0], X2 |-> bot[1], Y2 |-> bot[2], XY2 |-> bot[3],
                      DOMAIN_ID |-> did]])

\* _write_plate_stress: the records of step it.  top[:, 3] and bot[:, 3]
\* need four columns, whatever the number of rows.
PlateArr(res, it, did) ==
    LET en == res.element_node
        rpe == 2 * NNodes(res)
        n_elem == res.nrows \div rpe
        d == res.data[it]
    IN IF res.ncols < 4 THEN Raised
       ELSE Ok([k \in 1..n_elem |->
                  LET top == d[(k - 1) * rpe]
                      bot == d[(k - 1) * rpe + 1]
                  IN [EID |-> en[(k - 1) * rpe][1],
                      FD1 |-> top[0], X1 |-> top[1], Y1 |-> top[2], XY1 |-> top[3],
                      FD2 |-> bot[0], X2 |-> bot[1], Y2 |-> bot[2], XY2 |-> bot[3],
                      DOMAIN_ID |-> did]])

\* term_top = b'Z1' if ip == 0 else b'Z1'
term_top(ip) == IF ip = 0 THEN "Z1" ELSE "Z1"

\* term_bot = b'Z2' if ip == 0 else b'Z2'
term_bot(ip) == IF ip = 0 THEN "Z2" ELSE "Z2"

\* The row-th output row (from 0) of _write_quad_cn_stress: element ie,
\* sample point ip, top surface first.
QuadCnRow(res, it, did, row) ==
    LET en == res.element_node
        d == res.data[it]
        npts == NNodes(res)
        rpe == 2 * npts
        ie == row \div (2 * npts)
        ip == (row % (2 * npts)) \div 2
        base == ie * rpe
        top_idx == base + ip * 2
        bot_idx == top_idx + 1
        zero == [FD1 |-> 0, X1 |-> 0, Y1 |-> 0, XY1 |-> 0,
                 FD2 |-> 0, X2 |-> 0, Y2 |-> 0, XY2 |-> 0]
    IN IF row % 2 = 0
       THEN [EID |-> en[base][1], TERM |-> term_top(ip), GRID |-> en[top_idx][2],
             FD1 |-> d[top_idx][0], X1 |-> d[top_idx][1], Y1 |-> d[top_idx][2],
             XY1 |-> d[top_idx][3], DOMAIN_ID |-> did] @@ zero
       ELSE [EID |-> en[base][1], TERM |-> term_bot(ip), GRID |-> en[top_idx][2],
             FD2 |-> d[bot_idx][0], X2 |-> d[bot_idx][1], Y2 |-> d[bot_idx][2],
             XY2 |-> d[bot_idx][3], DOMAIN_ID |-> did] @@ zero

\* The corner step body with the top-surface row only.
QuadCnArrTopOnly(res, it, did) ==
    LET n_elem == res.nrows \div (2 * NNodes(res))
    IN IF n_elem > 0 /\ res.ncols < 4 THEN Raised
       ELSE Ok([k \in 1..(n_elem * NNodes(res)) |->
                  QuadCnRow(res, it, did, 2 * (k - 1))])

\* _write_quad_cn_stress: the records of step it of a load case with more
\* than one sample point; d[top_idx, 3] needs four columns once there is an
\* element.
QuadCnArr(res, it, did) ==
    LET n_elem == res.nrows \div (2 * NNodes(res))
        n_out == n_elem * NNodes(res) * 2
    IN IF n_elem > 0 /\ res.ncols < 4 THEN Raised
       ELSE Ok([k \in 1..n_out |-> QuadCnRow(res, it, did, k - 1)])

\* _write_1d_result: the records of step it.
OneDArr(col_map, res, it, did) ==
    LET eids == IF res.has_element THEN res.element
                ELSE [r \in DOMAIN res.element_node |-> res.element_node[r][1]]
    IN Ok([k \in 1..res.nrows |->
             [EID |-> eids[k - 1], DOMAIN_ID |-> did]
             @@ FillPresent(col_map, res.data[it][k - 1], res.ncols)])

\* _write_beam_stress: the records of step it.
BeamStressArr(res, it, did) ==
    Ok([k \in 1..res.nrows |->
          [EID |-> res.element_node[k - 1][1], NID |-> res.element_node[k - 1][2],
           DOMAIN_ID |-> did]
          @@ FillPresent(BEAM_STRESS_COLS, res.data[it][k - 1], res.ncols)])

\* The six components of one beam end, under the suffix of the end.
BeamEnd(row, ncols, suffix) ==
    LET f == FillPresent(BEAM_FORCE_COLS, row, IF ncols >= 6 THEN ncols ELSE 0)
    IN [n \in {c[1] \o suffix : c \in {BEAM_FORCE_COLS[i] : i \in 1..6}} |->
          f[(CHOOSE c \in {BEAM_FORCE_COLS[i] : i \in 1..6} : c[1] \o suffix = n)[1]]]

\* _write_beam_force: the records of step it; the components are copied
\* only `if d.shape[1] >= 6`.
BeamForceArr(res, it, did) ==
    LET en == res.element_node
        n_elem == res.nrows \div 2
        d == res.data[it]
    IN Ok([k \in 1..n_elem |->
             LET ia == (k - 1) * 2
                 ib == ia + 1
             IN [EID |-> en[ia][1], NIDA |-> en[ia][2], NIDB |-> en[ib][2],
                 DOMAIN_ID |-> did]
                @@ BeamEnd(d[ia], res.ncols, "A") @@ BeamEnd(d[ib], res.ncols, "B")])

\* Every sample point counted as used.
NodefAllPoints(npts) == npts

\* nodef_map.get(npts, npts - 1)
Nodef(npts) ==
    CASE npts = 9 -> 8 [] npts = 7 -> 6 [] npts = 5 -> 4 [] OTHER -> npts - 1

\* _write_solid_stress: the records of step it; d[:, :, 5] needs six columns.
SolidArr(npts, res, it, did) ==
    LET en == res.element_node
        n_elem == res.nrows \div npts
        d == res.data[it]
    IN IF res.ncols < 6 THEN Raised
       ELSE Ok([k \in 1..n_elem |->
                  [EID |-> en[(k - 1) * npts][1], CID |-> 0, CTYPE |-> "GRID",
                   NODEF |-> Nodef(npts),
                   SS |-> [j \in 0..(npts - 1) |->
                             LET r == (k - 1) * npts + j
                             IN [GRID |-> en[r][2], X |-> d[r][0], Y |-> d[r][1],
                                 Z |-> d[r][2], TXY |-> d[r][3], TYZ |-> d[r][4],
                                 TZX |-> d[r][5]]],
                   DOMAIN_ID |-> did]])

Abs(x) == IF x < 0 THEN -x ELSE x

\* np.sqrt of a perfect square.
Sqrt(x) == CHOOSE r \in 0..x : r * r = x

\* The root without the sign of the eigenvalue.
OmegaUnsigned(eig) == Sqrt(Abs(eig))

\* omega = np.sqrt(abs(eig)) if eig >= 0 else -np.sqrt(abs(eig))
Omega(eig) == IF eig >= 0 THEN Sqrt(Abs(eig)) ELSE -Sqrt(Abs(eig))

\* freq = abs(omega) / (2.0 * np.pi), kept as the quotient <<numerator, "2*pi">>
Freq(omega) == <<Abs(omega), "2*pi">>

\* Row i (from 0) of the eigenvalue summary of one load case.
EigenRecord(res, i, did) ==
    LET eig == The(res.eigrs)[i + 1]
        omega == Omega(eig)
    IN [MODE |-> The(res.modes)[i + 1], ORDER |-> The(res.modes)[i + 1],
        EIGEN |-> eig, OMEGA |-> omega, FREQ |-> Freq(omega),
        MASS |-> 0, STIFF |-> 0, DOMAIN_ID |-> did]

(***************************************************************************)
(* One builder run over one load case of a result object with arrays.      *)
(***************************************************************************)
\* The step body of the builder a run exercises.
StepArr(m, it, did) ==
    CASE m.kind = "nodal" -> NodalArr(m.res, it, did)
      [] m.kind = "grid_force" -> GridForceArr(m.res, it, did)
      [] m.kind = "plate" -> PlateArr(m.res, it, did)
      [] m.kind = "quad_cn" -> QuadCnArr(m.res, it, did)
      [] m.kind = "1d" -> OneDArr(m.cols, m.res, it, did)
      [] m.kind = "beam_stress" -> BeamStressArr(m.res, it, did)
      [] m.kind = "beam_force" -> BeamForceArr(m.res, it, did)
      [] m.kind = "solid" -> SolidArr(m.npts, m.res, it, did)

\* The load case is not passed over by the builder (`continue`).
Uses(m) ==
    CASE m.kind = "quad_cn" -> NNodes(m.res) > 1
      [] m.kind = "1d" -> m.res.has_element \/ m.res.has_element_node
      [] m.kind = "beam_force" -> m.res.has_element_node
      [] OTHER -> TRUE

RECURSIVE FillArr(_, _, _, _)
\* for it in range(ntimes): did = dom.get_id(sc, it, res); arr = ...;
\* rows_list.append(arr); idx_list.append((did, pos, n)); pos += n
FillArr(w, m, it, acc) ==
    IF it >= m.res.ntimes \/ acc.err THEN acc
    ELSE LET g == get_id(w, acc.dom, 1, it, m.res)
             a == StepArr(m, it, g.did)
         IN FillArr(w, m, it + 1,
                    IF a.err THEN [acc EXCEPT !.dom = g.dom, !.err = TRUE]
                    ELSE [dom |-> g.dom,
                          pos |-> Advance(acc.pos, Len(a.arr)),
                          rows_list |-> Append(acc.rows_list, a.arr),
                          idx_list |-> Append(acc.idx_list,
                                              IndexEntry(g.did, acc.pos, Len(a.arr))),
                          err |-> FALSE])

\* A builder called on {1: m.res}.
BuildArr(w, S, m) ==
    LET start == EmptyAcc(S.dom) @@ [err |-> FALSE]
        b == IF Uses(m) THEN FillArr(w, m, 0, start) ELSE start
    IN [F |-> IF b.err THEN [S.F EXCEPT !.err = TRUE]
              ELSE _save(w, S.F, m.path, b.rows_list, b.idx_list, 0),
        dom |-> b.dom]

\* The builder of the run, from its first line to _save.
EmitRows ==
    /\ pc = "rows"
    /\ Commit(BuildArr(writer, Cur, op2), "done")

EmitNodal ==
    /\ op2.kind = "nodal"
    /\ EmitRows

EmitGridForce ==
    /\ op2.kind = "grid_force"
    /\ EmitRows

EmitPlate ==
    /\ op2.kind = "plate"
    /\ EmitRows

EmitQuadCn ==
    /\ op2.kind = "quad_cn"
    /\ EmitRows

EmitOneD ==
    /\ op2.kind = "1d"
    /\ EmitRows

EmitBeamStress ==
    /\ op2.kind = "beam_stress"
    /\ EmitRows

EmitBeamForce ==
    /\ op2.kind = "beam_force"
    /\ EmitRows

EmitSolid ==
    /\ op2.kind = "solid"
    /\ EmitRows

\* _write_eigenvalue_summary on {1: op2.res}.
EmitEigen ==
    /\ pc = "rows"
    /\ op2.kind = "eigen"
    /\ LET r == EigRows(writer, Cur.dom, 1, op2.res, 0, <<>>)
           n == Len(The(op2.res.modes))
           arr == [i \in 1..n |-> EigenRecord(op2.res, i - 1, r.rows[i].DOMAIN_ID)]
       IN Commit([F |-> _save(writer, Cur.F, op2.path, <<arr>>,
                              <<EigIndexEntry(0, n)>>, 0),
                  dom |-> r.dom], "done")

\* Eigenvalues of the runs: signed perfect squares.
EigenValues == {-400, -1, 0, 4, 100}

\* A result object with arrays: k entities of `per` source rows each.
Src(k, per, T, ncols, f) ==
    LET r == Flavour(Result(k * per, T), f) IN r @@ Arrays(T, k * per, ncols)

RowShapes(kind, path, npts, cols, per, flavours, lo) ==
    {[kind |-> kind, path |-> path, npts |-> npts, cols |-> cols,
      res |-> Src(k, per, T, ncols, f)] :
        k \in lo..RowEnt, T \in 0..RowSteps, ncols \in 0..RowCols, f \in flavours}

\* The runs of the builders both writers have.
RowModels ==
    RowShapes("nodal", "/NASTRAN/RESULT/NODAL/DISPLACEMENT", 0, <<>>, 1, {"plain"}, 0)
    \cup RowShapes("plate", "/NASTRAN/RESULT/ELEMENTAL/STRESS/QUAD4", 0, <<>>, 2,
                   {"plain"}, 0)
    \cup RowShapes("plate", "/NASTRAN/RESULT/ELEMENTAL/STRESS/QUAD4", 0, <<>>, 10,
                   {"corner_npe", "corner_nn"}, 0)
    \cup UNION {RowShapes("1d", c[1], 0, c[2], 1, {"plain", "element", "neither"}, 0) :
                  c \in {<<"/NASTRAN/RESULT/ELEMENTAL/STRESS/ROD", ROD_STRESS_COLS>>,
                         <<"/NASTRAN/RESULT/ELEMENTAL/STRESS/BUSH", BUSH_STRESS_COLS>>,
                         <<"/NASTRAN/RESULT/ELEMENTAL/ELEMENT_FORCE/BAR", BAR_FORCE_COLS>>,
                         <<"/NASTRAN/RESULT/ELEMENTAL/ELEMENT_FORCE/ROD", ROD_FORCE_COLS>>}}
    \cup UNION {RowShapes("solid", c[1], c[2], <<>>, c[2], {"plain"}, 1) :
                  c \in {<<"/NASTRAN/RESULT/ELEMENTAL/STRESS/HEXA", 9>>,
                         <<"/NASTRAN/RESULT/ELEMENTAL/STRESS/PENTA", 7>>,
                         <<"/NASTRAN/RESULT/ELEMENTAL/STRAIN/TETRA", 5>>}}

\* The runs of the builders only the desktop writer has.
DesktopRowModels ==
    RowShapes("grid_force", "/NASTRAN/RESULT/NODAL/GRID_FORCE", 0, <<>>, 1, {"plain"}, 0)
    \cup RowShapes("quad_cn", "/NASTRAN/RESULT/ELEMENTAL/STRESS/QUAD_CN", 0, <<>>, 2,
                   {"plain"}, 0)
    \cup RowShapes("quad_cn", "/NASTRAN/RESULT/ELEMENTAL/STRESS/QUAD_CN", 0, <<>>, 10,
                   {"corner_npe", "corner_nn"}, 0)
    \cup RowShapes("beam_stress", "/NASTRAN/RESULT/ELEMENTAL/STRESS/BEAM", 0, <<>>, 1,
                   {"plain"}, 0)
    \cup RowShapes("beam_force", "/NASTRAN/RESULT/ELEMENTAL/ELEMENT_FORCE/BEAM", 0, <<>>,
                   2, {"plain", "element"}, 0)
    \cup UNION {{[kind |-> "eigen", path |-> "/NASTRAN/RESULT/SUMMARY/EIGENVALUE",
                  npts |-> 0, cols |-> <<>>,
                  res |-> [Result(1, n) EXCEPT !.modes = Some([i \in 1..n |-> i]),
                                               !.eigrs = Some(eigrs)]] :
                   eigrs \in [1..n -> EigenValues]} : n \in 0..RowSteps}

InitRows ==
    /\ writer \in {"gui", "cli"}
    /\ op2 \in RowModels \cup (IF writer = "gui" THEN DesktopRowModels ELSE {})
    /\ pc = "rows"
    /\ _map = NewDomains._map
    /\ _records = NewDomains._records
    /\ h5 = EmptyFile.h5
    /\ attrs = EmptyMap
    /\ created = EmptyFile.created
    /\ last = NoCall
    /\ batch = NoBatch

NextRows ==
    \/ EmitNodal
    \/ EmitGridForce
    \/ EmitPlate
    \/ EmitQuadCn
    \/ EmitOneD
    \/ EmitBeamStress
    \/ EmitBeamForce
    \/ EmitSolid
    \/ EmitEigen

\* One builder, one load case, every shape of the source arrays.
SpecRows == InitRows /\ [][NextRows]_vars

(***************************************************************************)
(* Properties of the record contents                                       *)
(***************************************************************************)
\* The table of the run, empty when none was written.
RowTable == IF op2.path \in DOMAIN h5 THEN h5[op2.path].data ELSE <<>>

\* The record of entity k (from 1) of step it (from 0), n records per step.
RowAt(it, k, n) == RowTable[it * n + k]

RunSteps == 0..(op2.res.ntimes - 1)

\* The field-to-column layout of the builders that copy column by column.
ColsOf(m) ==
    CASE m.kind = "nodal" -> NODAL_COLS
      [] m.kind = "grid_force" -> GRID_FORCE_COLS
      [] m.kind = "beam_stress" -> BEAM_STRESS_COLS
      [] m.kind = "1d" -> m.cols

\* C11 (as claimed, for every builder): a run over a source array with fewer
\* component columns than the layout expects does not fail, and each record
\* has every field whose column is present set from the source row and every
\* field whose column is missing at zero.
C11_MissingColumnsLeftZero ==
    /\ pc # "failed"
    /\ (pc = "done" /\ Uses(op2)
        /\ op2.kind \in {"nodal", "grid_force", "beam_stress", "1d"}) =>
           \A it \in RunSteps, k \in 1..op2.res.nrows, i \in 1..Len(ColsOf(op2)) :
               LET field == ColsOf(op2)[i][1]
                   col == ColsOf(op2)[i][2]
               IN RowAt(it, k, op2.res.nrows)[field] =
                      IF col < op2.res.ncols THEN op2.res.data[it][k - 1][col] ELSE 0
    /\ (pc = "done" /\ Uses(op2) /\ op2.kind = "beam_force") =>
           \A it \in RunSteps, k \in 1..(op2.res.nrows \div 2), i \in 1..6 :
               LET field == BEAM_FORCE_COLS[i][1]
                   col == BEAM_FORCE_COLS[i][2]
                   rec == RowAt(it, k, op2.res.nrows \div 2)
               IN /\ rec[field \o "A"] =
                         IF col < op2.res.ncols
                         THEN op2.res.data[it][2 * (k - 1)][col] ELSE 0
                  /\ rec[field \o "B"] =
                         IF col < op2.res.ncols
                         THEN op2.res.data[it][2 * (k - 1) + 1][col] ELSE 0

\* C14: for every step of a load case whose source has the four leading
\* component columns, the plate center builder emits one record per element
\* (source rows divided by stride = 2 * declared sample points); the record
\* of element k (from 0) has FD1, X1, Y1, XY1 from columns 0..3 of source row
\* k * stride, FD2, X2, Y2, XY2 from columns 0..3 of source row
\* k * stride + 1, and the element id of source row k * stride.
C14_PlateCenterRecords ==
    (pc = "done" /\ op2.kind = "plate" /\ op2.res.ncols >= 4) =>
        LET stride == 2 * NNodes(op2.res)
            n_elem == op2.res.nrows \div stride
        IN /\ Len(RowTable) = op2.res.ntimes * n_elem
           /\ \A it \in RunSteps, k \in 0..(n_elem - 1) :
                  LET rec == RowAt(it, k + 1, n_elem)
                      top == op2.res.data[it][k * stride]
                      bot == op2.res.data[it][k * stride + 1]
                  IN /\ <<rec.FD1, rec.X1, rec.Y1, rec.XY1>> =
                            <<top[0], top[1], top[2], top[3]>>
                     /\ <<rec.FD2, rec.X2, rec.Y2, rec.XY2>> =
                            <<bot[0], bot[1], bot[2], bot[3]>>
                     /\ rec.EID = op2.res.element_node[k * stride][1]

\* C14 witness: two elements of five sample points each, two steps, four
\* records written.
C14_Witness ==
    /\ pc = "done"
    /\ op2.kind = "plate"
    /\ NNodes(op2.res) = 5
    /\ op2.res.nrows = 20
    /\ op2.res.ntimes = 2
    /\ Len(RowTable) = 4

\* The sample points of a solid table, by element shape.
SolidPoints(path) ==
    CASE path = "/NASTRAN/RESULT/ELEMENTAL/STRESS/HEXA" -> 9
      [] path = "/NASTRAN/RESULT/ELEMENTAL/STRESS/PENTA" -> 7
      [] path = "/NASTRAN/RESULT/ELEMENTAL/STRAIN/TETRA" -> 5

\* C15: every solid record has a nested array of exactly npts sample-point
\* sub-records and NODEF = npts - 1, with npts 9 / 7 / 5 for hexahedral /
\* pentahedral / tetrahedral elements (NODEF 8 / 6 / 4); a step has source
\* rows / npts records, and sub-record j of element k is built from source
\* row k * npts + j (for sources with the six component columns).
C15_SolidRecords ==
    (pc = "done" /\ op2.kind = "solid" /\ op2.res.ncols >= 6) =>
        LET npts == SolidPoints(op2.path)
            n_elem == op2.res.nrows \div npts
        IN /\ Len(RowTable) = op2.res.ntimes * n_elem
           /\ \A it \in RunSteps, k \in 0..(n_elem - 1) :
                  LET rec == RowAt(it, k + 1, n_elem) IN
                  /\ DOMAIN rec.SS = 0..(npts - 1)
                  /\ rec.NODEF = npts - 1
                  /\ rec.NODEF \in {8, 6, 4}
                  /\ rec.EID = op2.res.element_node[k * npts][1]
                  /\ \A j \in 0..(npts - 1) :
                         LET row == op2.res.data[it][k * npts + j]
                             ss == rec.SS[j]
                         IN /\ ss.GRID = op2.res.element_node[k * npts + j][2]
                            /\ <<ss.X, ss.Y, ss.Z, ss.TXY, ss.TYZ, ss.TZX>> =
                                   <<row[0], row[1], row[2], row[3], row[4], row[5]>>

\* C15 witness: two hexahedral elements over two steps, records with NODEF 8.
C15_Witness ==
    /\ pc = "done"
    /\ op2.kind = "solid"
    /\ SolidPoints(op2.path) = 9
    /\ op2.res.nrows = 18
    /\ Len(RowTable) = 4
    /\ RowTable[4].NODEF = 8

Sign(x) == IF x > 0 THEN 1 ELSE IF x < 0 THEN -1 ELSE 0

\* C16: in every row of the eigenvalue summary OMEGA has the sign of the
\* eigenvalue and OMEGA squared is its absolute value, FREQ is
\* |OMEGA| / (2*pi) and never negative, MASS and STIFF are 0; eigenvalue -400
\* gives OMEGA -20 and FREQ 20 / (2*pi), eigenvalue 100 gives OMEGA 10.
C16_EigenNumerics ==
    (pc = "done" /\ op2.kind = "eigen") =>
        /\ Len(RowTable) = Len(The(op2.res.eigrs))
        /\ \A i \in 1..Len(RowTable) :
               LET rec == RowTable[i] IN
               /\ rec.EIGEN = The(op2.res.eigrs)[i]
               /\ Sign(rec.OMEGA) = Sign(rec.EIGEN)
               /\ rec.OMEGA * rec.OMEGA = Abs(rec.EIGEN)
               /\ rec.FREQ = <<Abs(rec.OMEGA), "2*pi">>
               /\ rec.FREQ[1] >= 0
               /\ rec.MASS = 0
               /\ rec.STIFF = 0
               /\ rec.EIGEN = -400 => rec.OMEGA = -20 /\ rec.FREQ = <<20, "2*pi">>
               /\ rec.EIGEN = 100 => rec.OMEGA = 10

\* C16 witness: a summary with the rows of eigenvalues -400 and 100.
C16_Witness ==
    /\ pc = "done"
    /\ op2.kind = "eigen"
    /\ \E i, j \in 1..Len(RowTable) :
           /\ RowTable[i].EIGEN = -400 /\ RowTable[i].OMEGA = -20
           /\ RowTable[j].EIGEN = 100 /\ RowTable[j].OMEGA = 10

\* C17: a load case that declares p > 1 sample points per element gets, per
\* step, 2 rows per sample point per element (10 per element for p = 5), the
\* rows of sample point ip of element ie carrying the element id of the
\* element's first source row and the grid id of the point's source row; a
\* load case that declares one sample point gets no rows and no index entry.
C17_CornerRows ==
    (pc = "done" /\ op2.kind = "quad_cn") =>
        LET p == NNodes(op2.res)
            n_elem == op2.res.nrows \div (2 * p)
            en == op2.res.element_node
        IN IF p <= 1
           THEN op2.path \notin DOMAIN h5 /\ IndexPath(op2.path) \notin DOMAIN h5
           ELSE /\ Len(RowTable) = op2.res.ntimes * n_elem * p * 2
                /\ p = 5 => Len(RowTable) = op2.res.ntimes * n_elem * 10
                /\ \A it \in RunSteps, ie \in 0..(n_elem - 1), ip \in 0..(p - 1) :
                       \A surface \in {0, 1} :
                           LET rec == RowAt(it, ie * 2 * p + ip * 2 + surface + 1,
                                            n_elem * p * 2)
                           IN /\ rec.EID = en[ie * 2 * p][1]
                              /\ rec.GRID = en[ie * 2 * p + ip * 2][2]
                              /\ rec.DOMAIN_ID = it + 1
                /\ op2.res.ntimes > 0 =>
                       /\ Len(h5[IndexPath(op2.path)].data) = op2.res.ntimes
                       /\ \A i \in 1..op2.res.ntimes :
                              h5[IndexPath(op2.path)].data[i].LENGTH = n_elem * p * 2

\* C17 witness: two elements of five sample points over two steps, 40 rows.
C17_Witness ==
    /\ pc = "done"
    /\ op2.kind = "quad_cn"
    /\ NNodes(op2.res) = 5
    /\ op2.res.nrows = 20
    /\ Len(RowTable) = 40

\* C20 (as claimed): in the plate-corner table the rows of an element's first
\* sample point (the center) carry a point-location tag different from the
\* tag of the rows of its other (corner) sample points.
C20_CenterTagDiffers ==
    (pc = "done" /\ op2.kind = "quad_cn" /\ NNodes(op2.res) > 1) =>
        LET p == NNodes(op2.res)
            n_elem == op2.res.nrows \div (2 * p)
        IN \A it \in RunSteps, ie \in 0..(n_elem - 1), ip \in 1..(p - 1) :
               \A s1, s2 \in {0, 1} :
                   RowAt(it, ie * 2 * p + s1 + 1, n_elem * p * 2).TERM #
                       RowAt(it, ie * 2 * p + ip * 2 + s2 + 1, n_elem * p * 2).TERM

(***************************************************************************)
(* The INPUT section of a file.                                            *)
(***************************************************************************)
\* The INPUT tables present in the file, the INPUT domain table included.
InputPresent == (InputTables \cup {InputDomainTable}) \cap DOMAIN h5

\* The phases of the desktop pass that come before _write_input_domains.
BeforeInputDomains == {"schema", "input_domains"}

\* C18: every record of every INPUT table carries DOMAIN_ID = 1; the index
\* table of every INPUT table is the single entry (1, 0, n) with n the
\* table's record count; and once the desktop writer has passed
\* _write_input_domains the INPUT domain table is there with exactly one row
\* whose ID is 1.
C18_InputDomainOne ==
    /\ \A q \in InputPresent :
          /\ \A i \in 1..Len(h5[q].data) : h5[q].data[i].DOMAIN_ID = 1
          /\ IndexPath(q) \in DOMAIN h5
          /\ h5[IndexPath(q)].data =
                <<[DOMAIN_ID |-> 1, POSITION |-> 0, LENGTH |-> Len(h5[q].data)]>>
    /\ (writer = "gui" /\ pc \notin BeforeInputDomains)
          => /\ InputDomainTable \in DOMAIN h5
             /\ Len(h5[InputDomainTable].data) = 1
             /\ h5[InputDomainTable].data[1].ID = 1

\* A finished desktop conversion whose file holds an INPUT table of two or
\* more records next to the INPUT domain table.
C18_Witness ==
    /\ writer = "gui"
    /\ pc = "done"
    /\ InputDomainTable \in DOMAIN h5
    /\ \E q \in InputPresent \ {InputDomainTable} : Len(h5[q].data) >= 2

(***************************************************************************)
(* Write-once output paths.                                                *)
(***************************************************************************)
\* A step of the pass leaves every dataset that exists as it is.
KeepsDatasets == \A p \in DOMAIN h5 : p \in DOMAIN h5' /\ h5'[p] = h5[p]

\* No path was created twice, and the file holds what was created.
CreatedOnce ==
    /\ \A i, j \in 1..Len(created) : created[i] = created[j] => i = j
    /\ Range(created) = DOMAIN h5

\* C19: within one conversion every output path (record table or index
\* table) is created at most once, no builder or writer ever targets a path
\* that exists already (which create_dataset would refuse, ending the pass),
\* every path belongs to one phase of the orchestration only, and a dataset
\* is never changed once it has been created.
C19_WriteOnce ==
    /\ [](/\ CreatedOnce
          /\ pc # "failed"
          /\ \A p \in DOMAIN h5 :
                Cardinality({k \in 2..10 :
                    p \in PhaseTables[k]
                          \cup {IndexPath(q) : q \in PhaseTables[k]}}) = 1)
    /\ [][KeepsDatasets]_vars

\* A finished conversion in which the center builder and the corner builder
\* both wrote for the same plate result, next to an INPUT table.
C19_Witness ==
    /\ pc = "done"
    /\ "/NASTRAN/RESULT/ELEMENTAL/STRESS/QUAD4" \in DOMAIN h5
    /\ "/NASTRAN/RESULT/ELEMENTAL/STRESS/QUAD_CN" \in DOMAIN h5
    /\ InputPresent # {}
    /\ Len(created) >= 6

(***************************************************************************)
(* The drivers: a loop over a list of input files, one conversion each.    *)
(* The command-line driver (main / convert_op2_to_h5) runs the stand-alone *)
(* writer, the desktop worker (_convert_worker) the desktop writer.        *)
(*   batch.files     the input files: [model, fault], fault being "none",  *)
(*                   "read" (read_op2 raises) or the phase of the pass at  *)
(*                   which an exception can be raised                      *)
(*   batch.i         the loop's position, 1-based (0 before the loop)      *)
(*   batch.outcomes  per file handled: whether an exception was raised,    *)
(*                   what convert_op2_to_h5 returned and how it was counted*)
(*   batch.exit      the exit status of the command-line process           *)
(*   batch.disk      the output files: path -> the position in the list of *)
(*                   the file whose conversion opened (truncated) it last  *)
(***************************************************************************)
MaxFiles == 2

\* Base names of input files that all differ, by position in the list.
BaseNames == <<"a", "b", "c", "d">>

\* basename = os.path.splitext(os.path.basename(op2_path))[0]
\* h5_path = os.path.join(output_dir, basename + ".h5")
\* An input path is [dir, base]: its directory and its base name without
\* the extension; the output directory is the same for the whole batch.
H5Path(i) == "out/" \o batch.files[i].op2_path.base \o ".h5"

\* Source models with one nodal category of S load cases and T steps.
BatchModels ==
    {[res |-> [EmptyRes EXCEPT !["displacements"] =
                 [sc \in 1..S |-> Mk("displacements", 1, T, "plain")]],
      absent |-> {}, inp |-> BaseInput] :
        <<S, T>> \in {<<1, 1>>, <<1, 2>>, <<2, 1>>}}

\* Where an exception strikes a file, if at all.
Faults == {"none", "read", "nodal", "strain"}

BatchFiles == [model : BatchModels, fault : Faults]

\* The file the loop is at.
CurFile == batch.files[batch.i]

\* A registry that the next conversion inherits.
StartWriteShared(prev) == [F |-> EmptyFile, dom |-> prev.dom]

\* dom = _Domains(); with h5py.File(h5_path, 'w') as h5:
StartWrite(prev) == [F |-> EmptyFile, dom |-> NewDomains]

\* A driver that hands back the output path whatever happened.
ReturnPathAlways(w, raised, h5_path) == Some(h5_path)

\* What one pass of the loop body yields: convert_op2_to_h5 returns None
\* from either except branch and h5_path otherwise; the desktop worker's
\* body has no value.
convert_op2_to_h5(w, raised, h5_path) ==
    IF w = "cli" /\ ~raised THEN Some(h5_path) ELSE None

\* `if result: success += 1 else: failed += 1`; in the desktop worker
\* success += 1 ends the try block and failed += 1 is the except branch.
Counted(w, raised, result) ==
    IF w = "cli" THEN (IF result # None THEN "success" ELSE "failed")
    ELSE (IF raised THEN "failed" ELSE "success")

\* for i, op2_path in enumerate(op2_files, 1):
NextFile ==
    /\ pc = "next"
    /\ batch.i < Len(batch.files)
    /\ batch' = [batch EXCEPT !.i = @ + 1]
    /\ pc' = "read"
    /\ UNCHANGED <<writer, op2, _map, _records, h5, attrs, created, last>>

\* read_op2 raises
ReadRaises ==
    /\ pc = "read"
    /\ CurFile.fault = "read"
    /\ pc' = "failed"
    /\ UNCHANGED <<writer, op2, _map, _records, h5, attrs, created, last, batch>>

\* read_op2 returns the model and write_msc_h5 begins: a new registry and a
\* new, truncated output file.
ReadAndOpen ==
    /\ pc = "read"
    /\ CurFile.fault # "read"
    /\ op2' = CurFile.model
    /\ LET S == StartWrite(Cur) IN
       /\ h5' = S.F.h5
       /\ created' = S.F.created
       /\ _map' = S.dom._map
       /\ _records' = S.dom._records
    /\ attrs' = EmptyMap
    /\ batch' = [batch EXCEPT !.disk = (H5Path(batch.i) :> batch.i) @@ @]
    /\ pc' = IF writer = "gui" THEN "schema" ELSE "nodal"
    /\ UNCHANGED <<writer, last>>

\* An exception out of write_msc_h5 at the file's fault phase: the pass
\* stops where it is and the partly written file is closed.
WriteRaises ==
    /\ pc \in {"nodal", "strain"}
    /\ batch.i > 0
    /\ pc = CurFile.fault
    /\ pc' = "failed"
    /\ UNCHANGED <<writer, op2, _map, _records, h5, attrs, created, last, batch>>

\* The end of the loop body: the value of the pass and the counters.
RecordOutcome ==
    /\ pc \in {"done", "failed"}
    /\ batch.i > 0
    /\ LET raised == pc = "failed"
           result == convert_op2_to_h5(writer, raised, H5Path(batch.i))
           counted == Counted(writer, raised, result)
       IN batch' = [batch EXCEPT
                      !.success = IF counted = "success" THEN @ + 1 ELSE @,
                      !.failed = IF counted = "failed" THEN @ + 1 ELSE @,
                      !.outcomes = Append(@, [raised |-> raised, ret |-> result,
                                              counted |-> counted])]
    /\ pc' = "next"
    /\ UNCHANGED <<writer, op2, _map, _records, h5, attrs, created, last>>

\* `if failed: sys.exit(1)`, else main returns and the status is 0.
MainExit ==
    /\ pc = "next"
    /\ writer = "cli"
    /\ batch.i = Len(batch.files)
    /\ batch' = [batch EXCEPT !.exit = Some(IF batch.failed # 0 THEN 1 ELSE 0)]
    /\ pc' = "exited"
    /\ UNCHANGED <<writer, op2, _map, _records, h5, attrs, created, last>>

\* The desktop worker hands the counters to _conversion_done.
_conversion_done ==
    /\ pc = "next"
    /\ writer = "gui"
    /\ batch.i = Len(batch.files)
    /\ pc' = "reported"
    /\ UNCHANGED <<writer, op2, _map, _records, h5, attrs, created, last, batch>>

\* Files of a batch whose base names all differ.
Named(fs) ==
    [k \in DOMAIN fs |->
        [model |-> fs[k].model, fault |-> fs[k].fault,
         op2_path |-> [dir |-> "in", base |-> BaseNames[k]]]]

\* Before the first file: nothing read, no registry, no file.
BatchStart ==
    /\ op2 = [res |-> EmptyRes, absent |-> {}, inp |-> EmptyInput]
    /\ pc = "next"
    /\ _map = NewDomains._map
    /\ _records = NewDomains._records
    /\ h5 = EmptyFile.h5
    /\ attrs = EmptyMap
    /\ created = EmptyFile.created
    /\ last = NoCall

InitBatch ==
    /\ writer \in {"gui", "cli"}
    /\ batch \in {[NoBatch EXCEPT !.files = Named(fs)] :
                    fs \in UNION {[1..n -> BatchFiles] : n \in 1..MaxFiles}}
    /\ BatchStart


NextBatch ==
    \/ NextFile
    \/ ReadRaises
    \/ ReadAndOpen
    \/ WriteRaises
    \/ RecordOutcome
    \/ MainExit
    \/ _conversion_done
    \/ WriteSchema
    \/ WriteInputDomains
    \/ WriteInputTables
    \/ WriteNodal
    \/ WriteGridForce
    \/ WriteStress
    \/ WriteStrain
    \/ WriteElementForce
    \/ WriteEigenvalueSummary
    \/ WriteResultDomains

\* A batch of conversions run by one process.
SpecBatch == InitBatch /\ [][NextBatch]_vars

\* The whole of write_msc_h5 on model m as one function of the state S it
\* starts from; each line is the set of states one phase can leave behind.
WholePass(w, S, m) ==
    LET inputs == {IF w = "gui"
                   THEN [x EXCEPT !.F = WriteInputs(_write_input_domains(x.F), m.inp)]
                   ELSE x : x \in {S}}
        nodal == {RunCalls(w, x, NodalCalls, 1, "", m) : x \in inputs}
        gpf == {IF w = "gui" THEN RunCalls(w, x, GridForceCalls, 1, "", m)
                ELSE x : x \in nodal}
        stress == {RunCalls(w, x, StressCalls(w, "STRESS"), 1, "STRESS", m) :
                     x \in gpf}
        strain == {RunCalls(w, x, StressCalls(w, "STRAIN"), 1, "STRAIN", m) :
                     x \in stress}
        force == {RunCalls(w, x, ForceCalls(w), 1, "ELEMENT_FORCE", m) :
                    x \in strain}
        eigen == {IF w = "gui"
                  THEN _write_eigenvalue_summary(w, x, Attr(m, "eigenvectors"))
                  ELSE x : x \in force}
    IN CHOOSE out \in {WriteDomains(w, x) : x \in eigen} : TRUE

\* The conversion of model m run on its own in a new process.
Alone(w, m) == WholePass(w, [F |-> EmptyFile, dom |-> NewDomains], m)

\* The files the loop has dealt with so far.
Handled == 1..Len(batch.outcomes)

\* C12: in a batch, a file whose read or write raised is reported as failed
\* (convert_op2_to_h5 returned None, never a path) and is not counted as a
\* success; a file counts as a success only when a path was returned; the
\* counters add up to the files handled so far, which when the batch ends is
\* every file of the list; and the command-line process exits non-zero
\* exactly when at least one file failed.
C12_BatchAccounting ==
    /\ Len(batch.outcomes) = (IF pc = "next" \/ pc \in {"exited", "reported"}
                              THEN batch.i ELSE batch.i - 1)
    /\ \A k \in Handled :
          LET o == batch.outcomes[k] IN
          /\ o.raised => o.ret = None /\ o.counted = "failed"
          /\ writer = "cli" => (o.counted = "success" <=> o.ret = Some(H5Path(k)))
          /\ ~o.raised => o.counted = "success"
    /\ batch.success = Cardinality({k \in Handled : batch.outcomes[k].counted = "success"})
    /\ batch.failed = Cardinality({k \in Handled : batch.outcomes[k].counted = "failed"})
    /\ batch.success + batch.failed = Len(batch.outcomes)
    /\ pc \in {"exited", "reported"} =>
          batch.success + batch.failed = Len(batch.files)
    /\ (pc = "exited") <=> (batch.exit # None)
    /\ batch.exit # None => ((The(batch.exit) # 0) <=> (batch.failed > 0))

\* A command-line batch that has ended after a file whose conversion raised
\* and a later file that was converted.
C12_Witness ==
    /\ pc = "exited"
    /\ Len(batch.files) >= 2
    /\ batch.outcomes[1].raised
    /\ ~batch.outcomes[2].raised
    /\ batch.exit = Some(1)

\* C13: each conversion of a batch has a registry of its own.  When the pass
\* over a file is complete, the domain records and the key map are those the
\* same model gives when converted alone in a new process (IDs from 1), and
\* so is the output file, whichever files were converted before it and
\* whether or not an earlier conversion stopped part-way; and at no point of
\* a pass does the registry hold a record that the model converted alone
\* would not have, at the same place.
C13_RegistryPerConversion ==
    /\ (pc = "done" /\ batch.i > 0) =>
          \A A \in {Alone(writer, op2)} :
             /\ _records = A.dom._records
             /\ _map = A.dom._map
             /\ h5 = A.F.h5
    /\ (batch.i > 0 /\ pc \notin {"next", "read", "failed", "exited", "reported"}) =>
          \A A \in {Alone(writer, op2)} :
             /\ Len(_records) <= Len(A.dom._records)
             /\ \A k \in 1..Len(_records) :
                   _records[k] = A.dom._records[k] /\ _records[k].ID = k

\* The second conversion of a batch is complete and holds domain records,
\* after a first conversion that stopped part-way with records of its own in
\* its registry.
C13_Witness ==
    /\ pc = "done"
    /\ batch.i = 2
    /\ batch.files[1].fault = "strain"
    /\ batch.outcomes[1].raised
    /\ Len(_records) >= 2
    /\ batch.files[1].model # op2

(***************************************************************************)
(* The plate-corner table per category.                                    *)
(***************************************************************************)
CornerTable(g) == "/NASTRAN/RESULT/ELEMENTAL/" \o g \o "/QUAD_CN"

\* The plate source of category g.
PlateSource(g) == GetAttr(op2, "cquad4_" \o Lower(g))

\* Some load case of the source declares more than one sample point and has
\* a step to write.
CornerRun(rd) == \E sc \in DOMAIN rd : NNodes(rd[sc]) > 1 /\ rd[sc].ntimes > 0

\* The position of a path in the order of creation (0 when it was not made).
CreatedAt(path) ==
    IF path \in Range(created)
    THEN CHOOSE i \in 1..Len(created) : created[i] = path ELSE 0

\* C21 (as claimed): at the end of a desktop conversion, for STRESS and for
\* STRAIN alike, the plate-corner table is in the file when that category's
\* plate source declares more than one sample point in some load case, and
\* is not in the file when the source declares one sample point only; when
\* written it comes after the category's plate-center tables and before the
\* category's other tables.
C21_CornerPerCategory ==
    (writer = "gui" /\ pc = "done") =>
        \A g \in {"STRESS", "STRAIN"} :
            /\ CornerRun(PlateSource(g)) => CornerTable(g) \in DOMAIN h5
            /\ ~HasCorner(PlateSource(g)) => CornerTable(g) \notin DOMAIN h5
            /\ CornerTable(g) \in DOMAIN h5 =>
                  \A cat \in {c \in Categories("gui") : c.group = g
                                                       /\ c.path \in DOMAIN h5} :
                      IF cat.call.kind = "plate"
                      THEN CreatedAt(cat.path) < CreatedAt(CornerTable(g))
                      ELSE CreatedAt(cat.path) >= CreatedAt(CornerTable(g))

(***************************************************************************)
(* INPUT tables by sub-type.                                               *)
(***************************************************************************)
\* The three by-type INPUT categories: path prefix, sub-types with a packing
\* rule, and the cards of the model.
ByTypeCategories ==
    {[prefix |-> "/NASTRAN/INPUT/ELEMENT/", types |-> Range(ElementTypes),
      cards |-> op2.inp.elements],
     [prefix |-> "/NASTRAN/INPUT/PROPERTY/", types |-> Range(PropertyTypes),
      cards |-> op2.inp.properties],
     [prefix |-> "/NASTRAN/INPUT/MATERIAL/", types |-> Range(MaterialTypes),
      cards |-> op2.inp.materials]}

\* The entity ids of a table's records, in record order.
IdsOf(path) == [i \in 1..Len(h5[path].data) |-> h5[path].data[i].ID]

\* C22: once the desktop writer has written the INPUT section, in the
\* element, property and material categories a sub-type without a packing
\* rule has no table and no index and the pass has not failed, while every
\* supported sub-type with at least one card has its table, holding exactly
\* one record per card of that sub-type in ascending order of the card id.
C22_UnsupportedSubTypeSkipped ==
    (writer = "gui" /\ pc \notin {"schema", "input_domains", "input"}) =>
        /\ pc # "failed"
        /\ \A cat \in ByTypeCategories :
              \A t \in {cat.cards[id] : id \in DOMAIN cat.cards} :
                 LET path == cat.prefix \o t IN
                 IF t \notin cat.types
                 THEN path \notin DOMAIN h5 /\ IndexPath(path) \notin DOMAIN h5
                 ELSE /\ path \in DOMAIN h5
                      /\ Range(IdsOf(path)) = OfType(cat.cards, t)
                      /\ Len(IdsOf(path)) = Cardinality(OfType(cat.cards, t))
                      /\ \A i, j \in 1..Len(IdsOf(path)) :
                            i < j => IdsOf(path)[i] < IdsOf(path)[j]

\* A finished desktop conversion of a model with an unsupported sub-type
\* between two cards of one supported sub-type.
C22_Witness ==
    /\ writer = "gui"
    /\ pc = "done"
    /\ \E cat \in ByTypeCategories :
          \E t \in cat.types, u \in {cat.cards[id] : id \in DOMAIN cat.cards} \ cat.types :
             /\ Cardinality(OfType(cat.cards, t)) >= 2
             /\ \E a, b \in OfType(cat.cards, t), c \in OfType(cat.cards, u) :
                   a < c /\ c < b

(***************************************************************************)
(* Composite (PCOMP) properties: the nested ply array.                     *)
(* A source card is [nplies, nlists]: the ply count the card declares and  *)
(* the length of its per-ply lists (material_ids, thicknesses, ...).       *)
(***************************************************************************)
\* ('PLY', PCOMP_PLY_DTYPE, (200,)): the slots of the nested ply array.
PCOMP_MAX_PLIES == 200

\* Ply counts around the cap, and lengths of the per-ply lists.
PlyCounts == {0, 1, 200, 201, 250}
PlyListLens == {0, 1, 250}

MaxPcomp == 2

Min(a, b) == IF a < b THEN a ELSE b

\* Source values of ply j of card pid (non-zero, distinct).
PlyMid(pid, j) == 1000 * pid + j

\* The PCOMP branch of _write_input_properties: NPLIES = nplies, then
\* `for j in range(min(200, nplies)): if j < len(mids): PLY[j].MID = mids[j]`.
PackPcomp(F, props) ==
    LET ids == Ascending(DOMAIN props) IN
    _ds_with_index(F, "/NASTRAN/INPUT/PROPERTY/PCOMP",
       [i \in 1..Len(ids) |->
           [ID |-> ids[i], NPLIES |-> props[ids[i]].nplies,
            PLY |-> [j \in 1..PCOMP_MAX_PLIES |->
                       IF j <= Min(PCOMP_MAX_PLIES, props[ids[i]].nplies)
                          /\ j <= props[ids[i]].nlists
                       THEN [MID |-> PlyMid(ids[i], j)] ELSE [MID |-> 0]],
            DOMAIN_ID |-> 1]], 0)

\* _write_input_properties on a model whose properties are PCOMP cards.
WritePcomp ==
    /\ pc = "pcomp"
    /\ Commit([Cur EXCEPT !.F = PackPcomp(Cur.F, op2.props)], "done")

PcompModels ==
    UNION {{[kind |-> "pcomp", props |-> f] :
              f \in [1..n -> [nplies : PlyCounts, nlists : PlyListLens]]} :
           n \in 1..MaxPcomp}

InitPcomp ==
    /\ writer = "gui"
    /\ op2 \in PcompModels
    /\ pc = "pcomp"
    /\ _map = NewDomains._map
    /\ _records = NewDomains._records
    /\ h5 = EmptyFile.h5
    /\ attrs = EmptyMap
    /\ created = EmptyFile.created
    /\ last = NoCall
    /\ batch = NoBatch

\* The property writer alone, on composite cards.
SpecPcomp == InitPcomp /\ [][WritePcomp]_vars

PcompTable == "/NASTRAN/INPUT/PROPERTY/PCOMP"

\* C23 (as claimed): a PCOMP card with more plies than the nested ply array
\* holds makes the conversion fail, and no written PCOMP record carries an
\* NPLIES larger than the number of ply slots of the record.
C23_PlyCapFailsLoudly ==
    /\ (pc # "pcomp" /\ \E pid \in DOMAIN op2.props :
                            op2.props[pid].nplies > PCOMP_MAX_PLIES)
          => pc = "failed"
    /\ PcompTable \in DOMAIN h5 =>
          \A i \in 1..Len(h5[PcompTable].data) :
              h5[PcompTable].data[i].NPLIES <= Len(h5[PcompTable].data[i].PLY)

(***************************************************************************)
(* The registry alone, over the per-step arrays of a result object.        *)
(***************************************************************************)
\* A per-step array that is missing, or holds the value base + i at step i
\* for its first n steps.
StepArrays(base) ==
    {None} \cup {Some([i \in 1..n |-> base + i]) : n \in 0..MaxSteps}

\* One result object with every combination of modes, eigrs and _times.
StepModels ==
    {[res |-> [EmptyRes EXCEPT !["displacements"] =
                 (1 :> [Mk("displacements", 1, MaxSteps, "plain") EXCEPT
                          !.modes = mo, !.eigrs = ei, !._times = ti])],
      absent |-> {}, inp |-> EmptyInput] :
        mo \in StepArrays(0), ei \in StepArrays(100), ti \in StepArrays(200)}

InitStep == Start(StepModels, "registry")

\* The registry alone, one result object, every per-step metadata.
SpecStep == InitStep /\ [][CallGetId]_vars

\* C24: when a get_id call creates a domain for step index i, the new
\* record's TIME_FREQ_EIGR is the i-th eigenvalue when the eigenvalue array
\* is present and has more than i entries, otherwise the i-th value of the
\* generic time array when that is present and long enough, otherwise 0;
\* its MODE is the i-th mode number when the modes array is present and long
\* enough, otherwise 0.
C24_StepMetadata ==
    [][(last' # last /\ Len(_records') = Len(_records) + 1) =>
          LET r == last'.result
              i == last'.itime
              rec == _records'[Len(_records')]
          IN /\ rec.TIME_FREQ_EIGR =
                   (IF r.eigrs # None /\ Len(The(r.eigrs)) > i
                    THEN The(r.eigrs)[i + 1]
                    ELSE IF r._times # None /\ Len(The(r._times)) > i
                         THEN The(r._times)[i + 1]
                         ELSE 0)
             /\ rec.MODE = (IF r.modes # None /\ Len(The(r.modes)) > i
                            THEN The(r.modes)[i + 1] ELSE 0)]_vars

\* The last call made the newest domain for a step the eigenvalue array is
\* too short for, and the value came from the generic time array.
C24_Witness ==
    /\ last.did > 0
    /\ last.did = Len(_records)
    /\ last.result.eigrs # None
    /\ Len(The(last.result.eigrs)) = 1
    /\ last.itime = 1
    /\ last.result._times # None
    /\ Len(The(last.result._times)) >= 2
    /\ _records[last.did].TIME_FREQ_EIGR = The(last.result._times)[2]
    /\ _records[last.did].MODE = 0

\* C25 (as claimed): in every result index table of the file the domain IDs
\* of the entries are strictly increasing in entry order.
C25_IndexDomainsIncreasing ==
    \A q \in ResultTables \cap Indexed :
        LET idx == h5[IndexPath(q)].data IN
        \A i, j \in 1..Len(idx) : i < j => idx[i].DOMAIN_ID < idx[j].DOMAIN_ID

(***************************************************************************)
(* Referential consistency of the domain IDs of a file.                    *)
(***************************************************************************)
\* The (load case, step) keys the builder of a category asks the registry
\* for: every step of every load case it does not skip.
KeysOf(cat) ==
    LET rd == GetAttr(op2, cat.call.attr) IN
    IF ~Wanted(cat.call, rd) THEN {}
    ELSE UNION {{<<sc, it>> : it \in 0..(rd[sc].ntimes - 1)} :
                  sc \in {u \in DOMAIN rd : ~Skipped(cat.call.kind, rd[u])}}

\* The keys the eigenvalue summary asks for: one per mode of every load case
\* that has both a modes and an eigenvalue array.
SummaryKeys ==
    LET ed == Attr(op2, "eigenvectors") IN
    IF writer # "gui" THEN {}
    ELSE UNION {{<<sc, i>> : i \in 0..(Len(The(ed[sc].modes)) - 1)} :
                  sc \in {u \in DOMAIN ed : ed[u].modes # None /\ ed[u].eigrs # None}}

\* Every key requested by any builder of the pass.
RequestedKeys == UNION {KeysOf(cat) : cat \in Categories(writer)} \cup SummaryKeys

\* The rows of the RESULT domain table of the file.
DomainRows == IF ResultDomainTable \in DOMAIN h5 THEN h5[ResultDomainTable].data ELSE <<>>

\* The ID names exactly one row of the RESULT domain table.
OneDomainRow(did) == Cardinality({k \in 1..Len(DomainRows) : DomainRows[k].ID = did}) = 1

\* C26 (as claimed): at the end of a conversion every DOMAIN_ID of a record
\* of a result table and every domain ID of a result index entry is the ID
\* of exactly one row of the RESULT domain table, and that table has exactly
\* one row per distinct (load case, step) key a builder asked for.
C26_DomainIdsResolve ==
    pc = "done" =>
        /\ \A q \in ResultTables \cap DOMAIN h5 :
              /\ \A i \in 1..Len(h5[q].data) : OneDomainRow(h5[q].data[i].DOMAIN_ID)
              /\ IndexPath(q) \in DOMAIN h5 =>
                    \A i \in 1..Len(h5[IndexPath(q)].data) :
                        OneDomainRow(h5[IndexPath(q)].data[i].DOMAIN_ID)
        /\ Len(DomainRows) = Cardinality(RequestedKeys)
        /\ DOMAIN _map = RequestedKeys
        /\ \A key \in RequestedKeys :
              /\ OneDomainRow(_map[key])
              /\ DomainRows[_map[key]].SUBCASE = key[1]

\* C27 (as claimed): at the end of a conversion, for every result category
\* and every step (load case sc, step index it) its builder wrote records
\* for, the domain row those records reference (the row whose ID the
\* registry holds for the key) has the load case sc and the MODE and
\* TIME_FREQ_EIGR found at index it of that category's own result object.
C27_DomainRowDescribesStep ==
    pc = "done" =>
        \A cat \in Categories(writer) :
            \A key \in KeysOf(cat) :
                LET res == GetAttr(op2, cat.call.attr)[key[1]]
                    row == _records[_map[key]]
                IN /\ row.SUBCASE = key[1]
                   /\ row.MODE = AtStep(res.modes, key[2], 0)
                   /\ row.TIME_FREQ_EIGR = TimeFreqEigr(res, key[2])

(***************************************************************************)
(* The eigenvalue summary against the EIGENVECTOR nodal table.             *)
(***************************************************************************)
EigenvectorTable == "/NASTRAN/RESULT/NODAL/EIGENVECTOR"

\* The eigenvector results of the model and the load cases the summary
\* writes rows for.
EigDict == Attr(op2, "eigenvectors")
SummaryCases == {sc \in DOMAIN EigDict :
                    EigDict[sc].modes # None /\ EigDict[sc].eigrs # None}
NModes(sc) == Len(The(EigDict[sc].modes))

\* Where the rows of load case sc start in the summary (0-based).
SummaryOffset(sc) ==
    SumOf([u \in SummaryCases |-> NModes(u)], {u \in SummaryCases : u < sc})

\* The position of step (sc, it) among the steps of the nodal builder.
StepNo(sc, it) ==
    LET steps == StepsOf(EigDict, DOMAIN EigDict)
    IN CHOOSE k \in 1..Len(steps) : steps[k] = <<sc, it>>

\* C28: once the desktop writer has written the eigenvalue summary, for
\* every load case with eigenvector results row i of the summary carries the
\* domain ID of the records (and of the index entry) of step i of that load
\* case in the EIGENVECTOR nodal table; and writing the summary creates a
\* domain only for a load case whose number of modes differs from its number
\* of eigenvector steps.
C28_SummarySharesDomains ==
    /\ []((writer = "gui" /\ pc \in {"domains", "done"}) =>
            \A sc \in SummaryCases :
               \A i \in 0..(NModes(sc) - 1) :
                  i < EigDict[sc].ntimes =>
                     LET did == h5[SummaryTable].data[SummaryOffset(sc) + i + 1].DOMAIN_ID
                         e == h5[IndexPath(EigenvectorTable)].data[StepNo(sc, i)]
                     IN /\ e.DOMAIN_ID = did
                        /\ \A j \in (e.POSITION + 1)..(e.POSITION + e.LENGTH) :
                              h5[EigenvectorTable].data[j].DOMAIN_ID = did)
    /\ [][pc = "eigen" =>
            \A key \in DOMAIN _map' \ DOMAIN _map :
                NModes(key[1]) # EigDict[key[1]].ntimes]_vars

\* A finished desktop conversion with two load cases of two modes each, as
\* many as eigenvector steps, whose summary and EIGENVECTOR table both hold
\* records.
C28_Witness ==
    /\ writer = "gui"
    /\ pc = "done"
    /\ Cardinality(SummaryCases) >= 2
    /\ \A sc \in SummaryCases : NModes(sc) = 2 /\ EigDict[sc].ntimes = 2
    /\ SummaryTable \in DOMAIN h5
    /\ Len(h5[SummaryTable].data) >= 4
    /\ EigenvectorTable \in DOMAIN h5
    /\ Len(h5[EigenvectorTable].data) >= 4

(***************************************************************************)
(* Output paths of a batch.                                                *)
(***************************************************************************)
\* Input paths: two directories, two base names.
InputPaths == [dir : {"d1", "d2"}, base : {"a", "b"}]

\* Lists of distinct input files (the desktop list refuses a path it holds
\* already), every one readable or not, of one and the same model.
PathFiles ==
    LET one == [model : {CHOOSE m \in BatchModels : TRUE},
                fault : {"none", "read", "nodal", "strain"},
                op2_path : InputPaths]
    IN UNION {{fs \in [1..n -> one] :
                  \A i, j \in 1..n : i # j => fs[i].op2_path # fs[j].op2_path} :
              n \in 1..MaxFiles}

InitPaths ==
    /\ writer \in {"gui", "cli"}
    /\ batch \in {[NoBatch EXCEPT !.files = fs] : fs \in PathFiles}
    /\ BatchStart

\* A batch over distinct input paths in any directories.
SpecPaths == InitPaths /\ [][NextBatch]_vars

\* The files of the batch whose conversion was counted as a success.
Converted == {k \in Handled : batch.outcomes[k].counted = "success"}

\* C29 (as claimed): in a batch, two distinct input files that were both
\* converted were written to distinct output paths, and the output written
\* for a converted file is never opened again by the conversion of another
\* file of the batch.
C29_DistinctOutputs ==
    /\ \A i, j \in Converted :
          batch.files[i].op2_path # batch.files[j].op2_path => H5Path(i) # H5Path(j)
    /\ \A k \in Converted : batch.disk[H5Path(k)] = k

(***************************************************************************)
(* The desktop front end (ConverterApp).  Its state is kept in `batch`:    *)
(*   op2_files    self.op2_files, the list shown in the window             *)
(*   output_dir   self.output_dir, "" when none is chosen                  *)
(*   _converting  self._converting                                         *)
(*   workers      the live _convert_worker threads: the `files` argument   *)
(*                of each, the number i of files it has attempted and its  *)
(*                two counters                                             *)
(*   after        the _conversion_done calls queued with self.after and    *)
(*                not run yet by the Tk loop                               *)
(*   runs         the number of workers started so far                     *)
(*   start_list, attempted, refused, reported                              *)
(*                history: the list as it was at the last start, the files *)
(*                attempted since with their outcome, whether the last     *)
(*                start request came during a conversion, and the counters *)
(*                the last _conversion_done received                       *)
(* The button callbacks and _conversion_done run on the Tk loop, one at a  *)
(* time; the worker steps interleave with them.                            *)
(***************************************************************************)
MaxRuns == 2

\* Full paths a user can add.
GuiPaths == {"d1/a.op2", "d1/b.op2"}

\* ConverterApp.__init__
NewApp == [op2_files |-> <<>>, output_dir |-> "", _converting |-> FALSE,
           workers |-> <<>>, after |-> <<>>, runs |-> 0,
           start_list |-> <<>>, attempted |-> <<>>, refused |-> FALSE,
           reported |-> {}]

\* The sequence without its k-th entry: del self.op2_files[idx]
DelAt(seq, k) == [n \in 1..(Len(seq) - 1) |-> IF n < k THEN seq[n] ELSE seq[n + 1]]

\* if f not in self.op2_files: self.op2_files.append(f)
_add_files(g, f) ==
    IF \E k \in 1..Len(g.op2_files) : g.op2_files[k] = f THEN g
    ELSE [g EXCEPT !.op2_files = Append(@, f)]

_remove_selected(g, idx) == [g EXCEPT !.op2_files = DelAt(@, idx)]

_clear_files(g) == [g EXCEPT !.op2_files = <<>>]

_browse_output(g, d) == IF d # "" THEN [g EXCEPT !.output_dir = d] ELSE g

\* threading.Thread(target=self._convert_worker,
\*                  args=(list(self.op2_files), out)).start()
StartThread(g) ==
    [g EXCEPT !._converting = TRUE,
              !.workers = Append(@, [files |-> g.op2_files, i |-> 0,
                                     success |-> 0, failed |-> 0]),
              !.runs = @ + 1,
              !.start_list = g.op2_files,
              !.attempted = <<>>]

\* _start_conversion without its first test.
StartWhileConverting(g) ==
    IF g.op2_files = <<>> THEN g
    ELSE IF g.output_dir = "" THEN g
    ELSE StartThread(g)

_start_conversion(g) ==
    IF g._converting THEN g
    ELSE IF g.op2_files = <<>> THEN g
    ELSE IF g.output_dir = "" THEN g
    ELSE StartThread(g)

AddFiles ==
    /\ \E f \in GuiPaths : batch' = _add_files(batch, f)
    /\ UNCHANGED <<writer, op2, pc, _map, _records, h5, attrs, created, last>>

RemoveSelected ==
    /\ \E idx \in 1..Len(batch.op2_files) : batch' = _remove_selected(batch, idx)
    /\ UNCHANGED <<writer, op2, pc, _map, _records, h5, attrs, created, last>>

ClearFiles ==
    /\ batch' = _clear_files(batch)
    /\ UNCHANGED <<writer, op2, pc, _map, _records, h5, attrs, created, last>>

BrowseOutput ==
    /\ \E d \in {"", "out"} : batch' = _browse_output(batch, d)
    /\ UNCHANGED <<writer, op2, pc, _map, _records, h5, attrs, created, last>>

\* The start button, or any other call of _start_conversion.
StartRequest ==
    /\ batch.runs < MaxRuns
    /\ batch' = [_start_conversion(batch) EXCEPT !.refused = batch._converting]
    /\ UNCHANGED <<writer, op2, pc, _map, _records, h5, attrs, created, last>>

\* One turn of the worker's loop: the file is read and written, or an
\* exception is caught; either way the loop goes on to the next file.
WorkerConvertsFile ==
    /\ \E w \in 1..Len(batch.workers) : \E ok \in BOOLEAN :
          LET W == batch.workers[w] IN
          /\ W.i < Len(W.files)
          /\ batch' = [batch EXCEPT
                         !.workers[w] = [W EXCEPT !.i = @ + 1,
                                           !.success = IF ok THEN @ + 1 ELSE @,
                                           !.failed = IF ok THEN @ ELSE @ + 1],
                         !.attempted = Append(@, [op2_path |-> W.files[W.i + 1],
                                                  ok |-> ok])]
    /\ UNCHANGED <<writer, op2, pc, _map, _records, h5, attrs, created, last>>

\* After the loop: self.after(0, self._conversion_done, success, failed),
\* and the thread ends.
WorkerPostsDone ==
    /\ \E w \in 1..Len(batch.workers) :
          LET W == batch.workers[w] IN
          /\ W.i = Len(W.files)
          /\ batch' = [batch EXCEPT
                         !.workers = DelAt(@, w),
                         !.after = Append(@, [success |-> W.success,
                                              failed |-> W.failed])]
    /\ UNCHANGED <<writer, op2, pc, _map, _records, h5, attrs, created, last>>

\* The Tk loop runs the queued _conversion_done(success, failed).
RunConversionDone ==
    /\ batch.after # <<>>
    /\ batch' = [batch EXCEPT !._converting = FALSE,
                              !.after = Tail(@),
                              !.reported = Some(Head(batch.after))]
    /\ UNCHANGED <<writer, op2, pc, _map, _records, h5, attrs, created, last>>

InitGui ==
    /\ writer = "gui"
    /\ batch = NewApp
    /\ BatchStart

WorkerSteps == WorkerConvertsFile \/ WorkerPostsDone

NextGui ==
    \/ AddFiles
    \/ RemoveSelected
    \/ ClearFiles
    \/ BrowseOutput
    \/ StartRequest
    \/ WorkerConvertsFile
    \/ WorkerPostsDone
    \/ RunConversionDone

SpecGui == InitGui /\ [][NextGui]_vars

\* Every conversion of a file returns or raises, so a started thread runs
\* to its end, and the Tk loop runs every callback queued with after().
SpecGuiFair ==
    /\ SpecGui
    /\ WF_vars(WorkerConvertsFile)
    /\ WF_vars(WorkerPostsDone)
    /\ WF_vars(RunConversionDone)

\* A worker is alive, or its _conversion_done has not run yet.
InProgress == batch.workers # <<>> \/ batch.after # <<>>

\* The worker has attempted every file of its snapshot.
AllAttempted ==
    /\ batch._converting
    /\ Len(batch.attempted) = Len(batch.start_list)

\* At most one worker, alive exactly while the flag is set, and the files
\* it has attempted are the first files of the list as it was at the start.
OneWorker ==
    /\ Len(batch.workers) + Len(batch.after) <= 1
    /\ batch._converting <=> InProgress
    /\ Len(batch.attempted) <= Len(batch.start_list)
    /\ \A k \in 1..Len(batch.attempted) :
          batch.attempted[k].op2_path = batch.start_list[k]
    /\ \A w \in 1..Len(batch.workers) :
          /\ batch.workers[w].files = batch.start_list
          /\ batch.workers[w].i = Len(batch.attempted)

\* A step taken during a conversion that is not the worker's own leaves the
\* worker, its snapshot and the flag alone.
RunUndisturbed ==
    (batch._converting /\ ~WorkerSteps /\ ~RunConversionDone) =>
        /\ batch'.workers = batch.workers
        /\ batch'.start_list = batch.start_list
        /\ batch'.attempted = batch.attempted
        /\ batch'._converting
        /\ batch'.runs = batch.runs

\* C30: at most one conversion worker is active at any time and a start
\* request during a conversion starts none; the worker converts the list as
\* it was at the start whatever is added, removed or cleared meanwhile; and
\* once it has attempted every file of that list, failed ones included, the
\* in-progress flag is eventually cleared, after which a start request with
\* a non-empty list and an output directory starts a new worker.
C30_SingleWorker ==
    /\ []OneWorker
    /\ [][RunUndisturbed]_vars
    /\ (AllAttempted ~> ~batch._converting)
    /\ []((~batch._converting /\ batch.op2_files # <<>> /\ batch.output_dir # "")
            => _start_conversion(batch).workers # <<>>)

\* A finished run with a failed file, during which the list was cleared and
\* a start request was refused.
C30_Witness ==
    /\ ~batch._converting
    /\ batch.reported # None
    /\ batch.refused
    /\ batch.runs = 1
    /\ Len(batch.attempted) = 2
    /\ \E k \in 1..2 : ~batch.attempted[k].ok
    /\ batch.op2_files = <<>>
    /\ The(batch.reported).failed >= 1

====
